---- MODULE Spec2Model ----
(***************************************************************************)
(* Live session subsystem of the classroom practice application:           *)
(*   - the useLiveSession controller (hooks/useLiveSession),                *)
(*   - the Supabase tables sessions / participants it talks to,            *)
(*   - the server-push registry (utils/liveRooms) behind /api/live,        *)
(*   - the managed-channel transport (utils/liveRealtime),                 *)
(*   - the teacher view (TeacherPage) and the home page join.              *)
(*                                                                         *)
(* Strings are sequences of one-character strings, so that trim,           *)
(* toUpperCase, replace(/:/g, "") and split(":") are computed, not assumed. *)
(* Every await of an async function is one action: the store operation     *)
(* and the continuation that consumes its response happen in that action.  *)
(* A page load replaces the JavaScript context, so the continuations of    *)
(* the previous page are dropped by OpenActivity and ClosePage.            *)
(***************************************************************************)
EXTENDS FiniteSets, Integers, Sequences, TLC

\* ------------------------------------------------------------------ bounds
MaxTicks == 3
MaxTokens == 3
MaxQueue == 2
MaxCalls == 2
MaxCanvasTs == 2
MaxLoads == 2
MaxViewTicks == 4

\* ------------------------------------------------------- program constants
FreshnessMs == 2 * 60 * 1000

\* The clock advances in steps of one freshness window: a row written in
\* the current step is fresh, a row of an earlier step is stale.
TickMs == FreshnessMs

\* The devices (browsers) of the students; each runs one activity page.
Clients == {"c1", "c2"}

\* What a student can type on the home page, and a ?session= parameter.
RawCodes == { <<" ", "a", "b">> }
RawAliases == { <<"x", ":", " ">> }
UrlCodes == { <<"a", "b">> }
Equations == { <<"1", "+", "1">>, <<"2", "+", "2">> }

\* The session the teacher created 86 minutes before the model starts: it
\* expires two clock steps from now.
InitialCode == <<"A", "B">>
InitialExpiresAt == 2 * TickMs

\* ----------------------------------------------------------------- strings
Null == <<"#null">>
NoTime == -1
NoToken == 0

Truthy(s) == s # Null /\ s # <<>>

Coalesce(a, b) == IF a # Null THEN a ELSE b

IsSpace(ch) == ch = " "

RECURSIVE TrimStart(_)
TrimStart(s) ==
  IF s # <<>> /\ IsSpace(Head(s)) THEN TrimStart(Tail(s)) ELSE s

RECURSIVE TrimEnd(_)
TrimEnd(s) ==
  IF s # <<>> /\ IsSpace(s[Len(s)])
  THEN TrimEnd(SubSeq(s, 1, Len(s) - 1))
  ELSE s

trim(s) == TrimEnd(TrimStart(s))

UpperChar(ch) ==
  CASE ch = "a" -> "A"
    [] ch = "b" -> "B"
    [] ch = "c" -> "C"
    [] ch = "d" -> "D"
    [] ch = "x" -> "X"
    [] ch = "y" -> "Y"
    [] OTHER -> ch

RECURSIVE toUpperCase(_)
toUpperCase(s) ==
  IF s = <<>> THEN <<>> ELSE <<UpperChar(Head(s))>> \o toUpperCase(Tail(s))

RECURSIVE StripColons(_)
StripColons(s) ==
  IF s = <<>> THEN <<>>
  ELSE IF Head(s) = ":" THEN StripColons(Tail(s))
  ELSE <<Head(s)>> \o StripColons(Tail(s))

TrimmedSession(nextSession) == toUpperCase(trim(nextSession))

\* An alias normalisation that keeps the colons.
TrimmedAliasKeepsColons(nextAlias) == trim(nextAlias)

TrimmedAlias(nextAlias) == StripColons(trim(nextAlias))

\* `${sessionCode}:${alias}`: the room id, the auto-join key and the suffix
\* of the token keys in localStorage.
PairKey(code, alias) == code \o <<":">> \o alias

\* roomId.split(":"): the parts between the colons.
RECURSIVE SplitFrom(_, _)
SplitFrom(s, acc) ==
  IF s = <<>> THEN <<acc>>
  ELSE IF Head(s) = ":" THEN <<acc>> \o SplitFrom(Tail(s), <<>>)
  ELSE SplitFrom(Tail(s), acc \o <<Head(s)>>)

Split(s) == SplitFrom(s, <<>>)

\* ------------------------------------------------------ finite-map helpers
Get(f, k) == IF k \in DOMAIN f THEN f[k] ELSE NoToken

Put(f, k, v) == [x \in (DOMAIN f) \cup {k} |-> IF x = k THEN v ELSE f[x]]

Remove(f, k) == [x \in (DOMAIN f) \ {k} |-> f[x]]

EmptyMap == [x \in {} |-> NoToken]

\* ---------------------------------------------------------------- messages
ErrEmpty == "Udfyld sessionkode og alias."
ErrNotFound == "Sessionkode findes ikke."
ErrExpired == "Sessionen er udlobet."
ErrAliasTaken == "Alias er allerede i brug. Vaelg et andet."
ErrUnreachable == "Kunne ikke forbinde til sessionen."
MsgRemoved == "Du er blevet fjernet fra sessionen."

VARIABLES
  now,          \* Date.now(), in milliseconds
  sessions,     \* table sessions: set of [id, code, expiresAt]
  participants, \* table participants: set of [sessionId, alias, lastSeen, token]
  nextToken,    \* the next value crypto.randomUUID() returns
  ls,           \* localStorage of each device
  ctl,          \* useLiveSession state of each device's activity page
  join,         \* the joinSession call in flight on each device
  loadReq,      \* the loadSession lookup in flight on each device
  notif,        \* postgres_changes DELETE payloads queued for each device
  liveRooms,    \* utils/liveRooms: room -> set of subscribers
  streams,      \* frames enqueued on each subscriber's stream
  channels,     \* utils/liveRealtime: rooms with a cached channel, per device
  broadcasts,   \* broadcast messages in flight on the managed channels
  teacher,      \* TeacherPage state
  obs,          \* what each device last observed (history, for the claims)
  handlers,     \* utils/liveRealtime: room -> handlers in insertion order,
                \* per device
  conns         \* GET /api/live: state of each event-stream connection

vars == << now, sessions, participants, nextToken, ls, ctl, join, loadReq,
           notif, liveRooms, streams, channels, broadcasts, teacher, obs,
           handlers, conns >>

\* ------------------------------------------------------------------- store
SessionByCode(code) == { s \in sessions : s.code = code }

SessionById(id) == { s \in sessions : s.id = id }

Rows(sid, al) == { p \in participants : p.sessionId = sid /\ p.alias = al }

\* A freshness test without the window: every row seen so far is recent.
IsRecentUnbounded(lastSeen, t) == t - lastSeen >= 0

\* Date.now() - lastSeen < 2 * 60 * 1000
IsRecent(lastSeen, t) == t - lastSeen < FreshnessMs

\* An expiry test that never finds a session expired.
IsExpiredNever(expiresAt, t) == FALSE

\* expiresAt < Date.now()
IsExpired(expiresAt, t) == expiresAt < t

\* upsert(..., { onConflict: "session_id,alias" })
Upsert(rows, sid, al, t, tok) ==
  { p \in rows : ~(p.sessionId = sid /\ p.alias = al) }
    \cup { [sessionId |-> sid, alias |-> al, lastSeen |-> t, token |-> tok] }

\* update({ last_seen }).eq("session_id", sid).eq("alias", al)
Touch(rows, sid, al, t) ==
  { IF p.sessionId = sid /\ p.alias = al THEN [p EXCEPT !.lastSeen = t] ELSE p
      : p \in rows }

\* ------------------------------------------------------------ localStorage
InitStorage ==
  [ gCode |-> Null, gAlias |-> Null, lCode |-> Null, lAlias |-> Null,
    gTok |-> EmptyMap, lTok |-> EmptyMap ]

\* localStorage.getItem(globalTokenKey) ?? localStorage.getItem(tokenKey)
ExistingToken(l, key) ==
  IF Get(l.gTok, key) # NoToken THEN Get(l.gTok, key) ELSE Get(l.lTok, key)

\* ------------------------------------------------------------- controller
\* No heartbeat update is waiting for its response. A pending one keeps its
\* outcome, the sessionCode and alias of the render whose effect sent it,
\* and the client token the device held for that membership.
NoBeat ==
  [ pc |-> "idle", result |-> "none", cCode |-> <<>>, cAlias |-> <<>>,
    tok |-> NoToken ]

\* The presence emitters of a page (lines 154-186): document.visibilityState,
\* the room of the running interval, the room of the visibilitychange
\* listener, and the rooms of the pagehide/beforeunload listener pairs in
\* the order they were added. <<>> stands for none.
NoPresence ==
  [ visible |-> TRUE, interval |-> <<>>, onVisibility |-> <<>>,
    unload |-> <<>> ]

InitCtl ==
  [ mounted |-> FALSE, sessionCode |-> <<>>, alias |-> <<>>, sessionId |-> 0,
    sessionExpiresAt |-> NoTime, isJoined |-> FALSE, joining |-> FALSE,
    joinError |-> "", hasGlobalIdentity |-> FALSE, identityChecked |-> FALSE,
    autoJoinRef |-> Null, timers |-> {}, beat |-> NoBeat,
    presence |-> NoPresence ]

IdleJoin ==
  [ pc |-> "idle", trimmedSession |-> <<>>, trimmedAlias |-> <<>>,
    cCode |-> <<>>, cAlias |-> <<>>, sessionId |-> 0,
    existingToken |-> NoToken, clientToken |-> NoToken ]

NoRequest == [ pc |-> "idle", cCode |-> <<>>, cAlias |-> <<>> ]

\* A roomId memo that reads the stored identity alone.
RoomIdOfIdentity(st) ==
  IF ~Truthy(st.sessionCode) \/ ~Truthy(st.alias)
  THEN <<>>
  ELSE PairKey(st.sessionCode, st.alias)

\* useMemo roomId
RoomIdOf(st) ==
  IF ~st.isJoined \/ ~Truthy(st.sessionCode) \/ ~Truthy(st.alias)
  THEN <<>>
  ELSE PairKey(st.sessionCode, st.alias)

roomId(c) == RoomIdOf(ctl[c])

\* An expiry effect without the cleanup that clears the previous timer.
ExpiryEffectNoCleanup(timers, oldExpiresAt, newExpiresAt) ==
  IF newExpiresAt = oldExpiresAt THEN timers
  ELSE timers \cup ({newExpiresAt} \ {NoTime})

\* The expiry effect (lines 94-105) when sessionExpiresAt changes: the
\* cleanup clears the timer of the old value and, unless the new value is
\* null, a leave is due at the new value (at once when it has passed).
\* `timers` holds the instants at which a resetSession is due.
ExpiryEffect(timers, oldExpiresAt, newExpiresAt) ==
  IF newExpiresAt = oldExpiresAt THEN timers
  ELSE (timers \ {oldExpiresAt}) \cup ({newExpiresAt} \ {NoTime})

\* A leaveSession that leaves sessionId and sessionExpiresAt as they are.
LeaveStateKeepsSession(st, message) ==
  [ st EXCEPT !.sessionCode = <<>>, !.alias = <<>>, !.isJoined = FALSE,
              !.hasGlobalIdentity = FALSE,
              !.joinError = IF message # "" THEN message ELSE @ ]

\* leaveSession(message), state part; "" stands for no message
LeaveState(st, message) ==
  [ st EXCEPT !.sessionCode = <<>>, !.alias = <<>>, !.sessionId = 0,
              !.sessionExpiresAt = NoTime, !.isJoined = FALSE,
              !.hasGlobalIdentity = FALSE,
              !.joinError = IF message # "" THEN message ELSE @,
              !.timers = ExpiryEffect(@, st.sessionExpiresAt, NoTime) ]

\* A leaveSession that removes the page's own keys and keeps the global
\* ones.
LeaveStorageLocalOnly(l, cCode, cAlias) ==
  LET l1 == IF Truthy(cCode) /\ Truthy(cAlias)
            THEN [ l EXCEPT !.lTok = Remove(@, PairKey(cCode, cAlias)) ]
            ELSE l
  IN [ l1 EXCEPT !.lCode = Null, !.lAlias = Null ]

\* leaveSession(message), localStorage part; cCode and cAlias are the
\* sessionCode and alias of the render that created the calling closure
LeaveStorage(l, cCode, cAlias) ==
  LET l1 == IF Truthy(cCode) /\ Truthy(cAlias)
            THEN [ l EXCEPT !.lTok = Remove(@, PairKey(cCode, cAlias)),
                            !.gTok = Remove(@, PairKey(cCode, cAlias)) ]
            ELSE l
  IN [ l1 EXCEPT !.lCode = Null, !.lAlias = Null,
                 !.gCode = Null, !.gAlias = Null ]

\* ------------------------------------------- server-push registry (liveRooms)
\* addSubscriber(room, controller)
AddSubscriber(reg, room, sub) ==
  [ r \in (DOMAIN reg) \cup {room} |->
      IF r = room
      THEN (IF room \in DOMAIN reg THEN reg[room] ELSE {}) \cup {sub}
      ELSE reg[r] ]

\* A removal that leaves the entry of a room whose set became empty.
RemoveSubscriberKeepsRoom(reg, room, sub) ==
  IF room \notin DOMAIN reg THEN reg
  ELSE [ reg EXCEPT ![room] = @ \ {sub} ]

\* removeSubscriber(room, controller)
RemoveSubscriber(reg, room, sub) ==
  IF room \notin DOMAIN reg THEN reg
  ELSE IF reg[room] \ {sub} = {}
       THEN [ r \in (DOMAIN reg) \ {room} |-> reg[r] ]
       ELSE [ reg EXCEPT ![room] = @ \ {sub} ]

\* A publish that leaves the controllers whose enqueue threw in the set.
PublishEventKeepsFailing(reg, room, failing) == reg

\* publishEvent(room, event), registry part: the controllers in `failing`
\* are those whose enqueue throws
PublishEvent(reg, room, failing) ==
  IF room \notin DOMAIN reg THEN reg
  ELSE IF reg[room] \ failing = {}
       THEN [ r \in (DOMAIN reg) \ {room} |-> reg[r] ]
       ELSE [ reg EXCEPT ![room] = @ \ failing ]

\* A publish that writes to the controllers of every room.
EnqueueEveryRoom(reg, strm, room, failing, event) ==
  [ sub \in DOMAIN strm |->
      IF \E r \in DOMAIN reg : sub \in reg[r] \ failing
      THEN Append(strm[sub], event)
      ELSE strm[sub] ]

\* publishEvent(room, event), stream part: the event is enqueued on every
\* registered controller whose enqueue succeeds
Enqueue(reg, strm, room, failing, event) ==
  [ sub \in DOMAIN strm |->
      IF room \in DOMAIN reg /\ sub \in reg[room] \ failing
      THEN Append(strm[sub], event)
      ELSE strm[sub] ]

\* every stream the publish writes to has room for one more frame
CanPublish(room) ==
  room \in DOMAIN liveRooms =>
    \A sub \in liveRooms[room] :
      sub \in DOMAIN streams => Len(streams[sub]) < MaxQueue

Event(type, equation, ts) == [ type |-> type, equation |-> equation, ts |-> ts ]

\* ------------------------------------------------------------ teacher basics
Teacher == "T"

TeacherSub(room) == << Teacher, room >>

\* makeRoom(id); taskTs is not in the code: the highest payload.ts of the
\* task events applied to the room so far
MakeRoom ==
  [ equation |-> <<>>, presenceState |-> "null", lastPresenceAt |-> NoTime,
    taskTs |-> 0 ]

\* A white canvas: no image drawn, no stroke.
BlankCanvas == [ base |-> 0, strokes |-> {} ]

\* No canvas event received yet for the room shown on the main canvas.
NoHistory ==
  [ evs |-> <<>>, c0 |-> BlankCanvas, t0 |-> 0, k0 |-> TRUE,
    c1 |-> BlankCanvas, t1 |-> 0, k1 |-> TRUE ]

\* createSession is not running.
IdleCreate ==
  [ pc |-> "idle", attempt |-> 0, code |-> <<>>, expiresAt |-> NoTime ]

\* TeacherPage after construction
InitTeacher ==
  [ sessionCodes |-> {},
    rooms |-> [ r \in {} |-> MakeRoom ],
    clock |-> 0,                             \* the state `now`
    activeRoom |-> <<>>,
    lastCanvasTs |-> [ r \in {} |-> 0 ],     \* lastCanvasTsRef
    canvas |-> BlankCanvas,                  \* canvasRef
    preview |-> [ r \in {} |-> 0 ],          \* previewCanvasRef
    loading |-> {},                          \* images not yet loaded
    hist |-> NoHistory,                      \* the last two canvas events
    creatingSession |-> FALSE,
    sessionError |-> "",
    create |-> IdleCreate ]

\* const handlers = new Map()
NoHandlers == [ r \in {} |-> <<>> ]

\* no event-stream connection has been opened
NoConns == [ sub \in {} |-> [ state |-> "open", ping |-> FALSE ] ]

\* ----------------------------------------------------------- history state
InitObs ==
  [ signal |-> "none",      \* last eviction signal the controller handled
    room |-> <<>>,          \* its room id when that signal arrived
    task |-> <<>>,          \* last equation emitted towards a teacher view
    evicted |-> FALSE,      \* the teacher deleted this joined device's row
    hbAfterEvict |-> FALSE, \* the store answered a heartbeat since then
    hbResult |-> "none",    \* outcome of the last heartbeat
    autoKeys |-> {},        \* pairs the auto-join effect has joined with
    calls |-> 0,            \* joinSession calls the page has made itself
    lastCall |-> <<>>,      \* pair of the latest joinSession call
    invoked |-> <<>>,       \* handlers the last broadcast dispatch called
    late |-> {},            \* those it called after they had unsubscribed
    sent |-> <<>>,          \* presence events the last beacon step posted
    emptied |-> {} ]        \* rooms whose last handler has unsubscribed

\* ---------------------------------------------------------------- Init
Init ==
  /\ now = 0
  /\ sessions = { [ id |-> 1, code |-> InitialCode,
                    expiresAt |-> InitialExpiresAt ] }
  /\ participants = {}
  /\ nextToken = 1
  /\ ls = [ c \in Clients |-> InitStorage ]
  /\ ctl = [ c \in Clients |-> InitCtl ]
  /\ join = [ c \in Clients |-> IdleJoin ]
  /\ loadReq = [ c \in Clients |-> NoRequest ]
  /\ notif = [ c \in Clients |-> {} ]
  /\ liveRooms = [ r \in {} |-> {} ]
  /\ streams = [ s \in {} |-> <<>> ]
  /\ channels = [ c \in Clients |-> {} ]
  /\ broadcasts = {}
  /\ teacher = InitTeacher
  /\ obs = [ c \in Clients |-> InitObs ]
  /\ handlers = [ c \in Clients |-> NoHandlers ]
  /\ conns = NoConns

\* --------------------------------------------------- effects of the hook
\* dependencies of the heartbeat and participant-kick effects
KickDeps(st) == << st.sessionId, st.alias, st.isJoined >>

StudentSub(c, room) == << c, room >>

\* The effects of device c that depend on roomId and on (sessionId, alias,
\* isJoined), when its state becomes st2: the EventSource of the former
\* room is closed (the route's cancel() removes the subscriber) and one is
\* opened on the new room; the participant-kick channel is replaced.
Settle(c, st2) ==
  LET old == roomId(c)
      new == RoomIdOf(st2)
      reg1 == RemoveSubscriber(liveRooms, old, StudentSub(c, old))
      reg2 == IF new = <<>> THEN reg1
              ELSE AddSubscriber(reg1, new, StudentSub(c, new))
  IN
  /\ liveRooms' = IF new = old THEN liveRooms ELSE reg2
  /\ streams' =
       IF new = old THEN streams
       ELSE [ s \in ((DOMAIN streams) \ {StudentSub(c, old)})
                      \cup (IF new = <<>> THEN {} ELSE {StudentSub(c, new)}) |->
                IF s \in DOMAIN streams /\ s # StudentSub(c, old)
                THEN streams[s] ELSE <<>> ]
  /\ notif' = IF KickDeps(st2) = KickDeps(ctl[c]) THEN notif
              ELSE [ notif EXCEPT ![c] = {} ]

\* ------------------------------------------------------------------- time
Tick ==
  /\ now + TickMs <= MaxTicks * TickMs
  /\ now' = now + TickMs
  /\ UNCHANGED << sessions, participants, nextToken, ls, ctl, join,
                  loadReq, notif, liveRooms, streams, channels, broadcasts,
                  teacher, obs >>
  /\ UNCHANGED << handlers, conns >>

\* ------------------------------------------------------------- home page
\* Home.joinSession: looks the session up and stores the global identity.
HomeJoin(c, rawCode, rawAlias) ==
  LET code == TrimmedSession(rawCode)
      al == TrimmedAlias(rawAlias)
      found == SessionByCode(code)
      ok == code # <<>> /\ al # <<>> /\ found # {}
            /\ \A s \in found : ~IsExpired(s.expiresAt, now)
  IN
  /\ ~ctl[c].mounted
  /\ ok
  /\ ls' = [ ls EXCEPT ![c].gCode = code, ![c].gAlias = al ]
  /\ obs' = [ obs EXCEPT ![c] = InitObs ]
  /\ UNCHANGED << now, sessions, participants, nextToken, ctl, join,
                  loadReq, notif, liveRooms, streams, channels, broadcasts,
                  teacher >>
  /\ UNCHANGED << handlers, conns >>

\* ---------------------------------------------------- page mount / unmount
\* The two mount effects: identity load, then the ?session= parameter.
MountState(l, url) ==
  LET finalSession == Coalesce(l.gCode, l.lCode)
      finalAlias == Coalesce(l.gAlias, l.lAlias)
      loaded == Truthy(finalSession) /\ Truthy(finalAlias)
      st1 == IF loaded
             THEN [ InitCtl EXCEPT
                      !.sessionCode = finalSession, !.alias = finalAlias,
                      !.hasGlobalIdentity = Truthy(l.gCode) /\ Truthy(l.gAlias) ]
             ELSE InitCtl
      st2 == [ st1 EXCEPT !.mounted = TRUE, !.identityChecked = TRUE ]
  IN IF Truthy(url) THEN [ st2 EXCEPT !.sessionCode = toUpperCase(url) ]
     ELSE st2

MountStorage(l) ==
  LET finalSession == Coalesce(l.gCode, l.lCode)
      finalAlias == Coalesce(l.gAlias, l.lAlias)
  IN IF Truthy(finalSession) /\ Truthy(finalAlias)
        /\ Truthy(l.gCode) /\ Truthy(l.gAlias)
     THEN [ l EXCEPT !.lCode = finalSession, !.lAlias = finalAlias ]
     ELSE l

OpenActivity(c, url) ==
  /\ ~ctl[c].mounted
  /\ ctl' = [ ctl EXCEPT ![c] = MountState(ls[c], url) ]
  /\ ls' = [ ls EXCEPT ![c] = MountStorage(@) ]
  /\ obs' = [ obs EXCEPT ![c] = InitObs ]
  /\ UNCHANGED << now, sessions, participants, nextToken, join, loadReq,
                  notif, liveRooms, streams, channels, broadcasts, teacher >>
  /\ UNCHANGED << handlers, conns >>

\* The tab is closed or navigates away: every effect is torn down and the
\* pending continuations die with the page.
ClosePage(c) ==
  /\ ctl[c].mounted
  /\ ctl' = [ ctl EXCEPT ![c] = InitCtl ]
  /\ join' = [ join EXCEPT ![c] = IdleJoin ]
  /\ loadReq' = [ loadReq EXCEPT ![c] = NoRequest ]
  /\ channels' = [ channels EXCEPT ![c] = {} ]
  /\ obs' = [ obs EXCEPT ![c] = InitObs ]
  /\ Settle(c, InitCtl)
  /\ UNCHANGED << now, sessions, participants, nextToken, ls, broadcasts,
                  teacher >>
  /\ UNCHANGED << handlers, conns >>

\* ------------------------------------------------------------ joinSession
\* The auto-join effect; it calls joinSession(sessionCode, alias), which
\* normalises, validates and sends the session lookup.
AutoJoin(c) ==
  LET st == ctl[c]
      key == PairKey(st.sessionCode, st.alias)
      code == TrimmedSession(st.sessionCode)
      al == TrimmedAlias(st.alias)
  IN
  /\ st.mounted /\ ~st.isJoined /\ ~st.joining
  /\ Truthy(st.sessionCode) /\ Truthy(st.alias)
  /\ st.autoJoinRef # key
  /\ IF code = <<>> \/ al = <<>>
     THEN /\ ctl' = [ ctl EXCEPT ![c].autoJoinRef = key,
                                 ![c].joinError = ErrEmpty ]
          /\ UNCHANGED join
     ELSE /\ ctl' = [ ctl EXCEPT ![c].autoJoinRef = key,
                                 ![c].joining = TRUE,
                                 ![c].joinError = "" ]
          /\ join' = [ join EXCEPT ![c] =
                         [ IdleJoin EXCEPT
                             !.pc = "lookup", !.trimmedSession = code,
                             !.trimmedAlias = al, !.cCode = st.sessionCode,
                             !.cAlias = st.alias ] ]
  /\ obs' = [ obs EXCEPT ![c].autoKeys = @ \cup {key},
                          ![c].lastCall = IF code = <<>> \/ al = <<>> THEN @
                                          ELSE PairKey(code, al) ]
  /\ UNCHANGED << now, sessions, participants, nextToken, ls, loadReq,
                  notif, liveRooms, streams, channels, broadcasts, teacher >>
  /\ UNCHANGED << handlers, conns >>

\* Continuation of the session lookup (lines 226-247).
JoinLookupAt(k, c, res) ==
  LET j == join[k]
      found == SessionByCode(j.trimmedSession)
      session == CHOOSE s \in found : TRUE
      missing == res = "error" \/ found = {}
      left == [ LeaveState(ctl[c], ErrNotFound) EXCEPT !.joining = FALSE ]
  IN
  /\ j.pc = "lookup"
  /\ IF missing
     THEN /\ ctl' = [ ctl EXCEPT ![c] = left ]
          /\ ls' = [ ls EXCEPT ![c] = LeaveStorage(@, j.cCode, j.cAlias) ]
          /\ join' = [ join EXCEPT ![k] = IdleJoin ]
          /\ Settle(c, left)
     ELSE IF IsExpired(session.expiresAt, now)
     THEN /\ ctl' = [ ctl EXCEPT ![c].joinError = ErrExpired,
                                 ![c].joining = FALSE ]
          /\ join' = [ join EXCEPT ![k] = IdleJoin ]
          /\ UNCHANGED << ls, notif, liveRooms, streams >>
     ELSE /\ join' = [ join EXCEPT
                         ![k].pc = "alias",
                         ![k].sessionId = session.id,
                         ![k].existingToken =
                            ExistingToken(ls[c],
                              PairKey(j.trimmedSession, j.trimmedAlias)) ]
          /\ UNCHANGED << ctl, ls, notif, liveRooms, streams >>
  /\ UNCHANGED << now, sessions, participants, nextToken, loadReq,
                  channels, broadcasts, teacher, obs >>
  /\ UNCHANGED << handlers, conns >>

\* The session lookup of the one joinSession call a page makes by itself.
JoinLookup(c, res) == JoinLookupAt(c, c, res)

\* A comparison with the inequality where the equality belongs.
TokenMatchesInverted(existingToken, rowToken) ==
  existingToken # NoToken /\ rowToken # existingToken

\* existingToken && existingAlias.client_token === existingToken
TokenMatches(existingToken, rowToken) ==
  existingToken # NoToken /\ rowToken = existingToken

\* if (isRecent && !tokenMatches): the alias is in use. `rows` is the data
\* of the alias lookup, empty when the lookup found nothing or failed.
AliasInUse(rows, existingToken, t) ==
  \E p \in rows :
    IsRecent(p.lastSeen, t) /\ ~TokenMatches(existingToken, p.token)

\* Continuation of the alias lookup (lines 249-270); its error is not read.
JoinAliasCheckAt(k, c, res) ==
  LET j == join[k]
      data == IF res = "error" THEN {} ELSE Rows(j.sessionId, j.trimmedAlias)
      fresh == j.existingToken = NoToken
  IN
  /\ j.pc = "alias"
  /\ IF AliasInUse(data, j.existingToken, now)
     THEN /\ ctl' = [ ctl EXCEPT ![c].joinError = ErrAliasTaken,
                                 ![c].joining = FALSE ]
          /\ join' = [ join EXCEPT ![k] = IdleJoin ]
          /\ UNCHANGED nextToken
     ELSE /\ fresh => nextToken <= MaxTokens
          /\ join' = [ join EXCEPT
                         ![k].pc = "upsert",
                         ![k].clientToken =
                            IF fresh THEN nextToken ELSE j.existingToken ]
          /\ nextToken' = IF fresh THEN nextToken + 1 ELSE nextToken
          /\ UNCHANGED ctl
  /\ UNCHANGED << now, sessions, participants, ls, loadReq, notif,
                  liveRooms, streams, channels, broadcasts, teacher, obs >>
  /\ UNCHANGED << handlers, conns >>

\* The alias lookup of the one joinSession call a page makes by itself.
JoinAliasCheck(c, res) == JoinAliasCheckAt(c, c, res)

\* localStorage writes of an accepted join (lines 289-294)
JoinStorage(l, code, al, tok) ==
  [ l EXCEPT !.lTok = Put(@, PairKey(code, al), tok),
             !.gTok = Put(@, PairKey(code, al), tok),
             !.lCode = code, !.lAlias = al, !.gCode = code, !.gAlias = al ]

\* state writes of an accepted join (lines 295-299)
JoinState(st, code, al, sid) ==
  [ st EXCEPT !.sessionCode = code, !.alias = al, !.sessionId = sid,
              !.isJoined = TRUE, !.joining = FALSE ]

\* Continuation of the upsert (lines 271-299). The insert fails when the
\* session row is gone (foreign key) or the store is unreachable. An
\* accepted join re-runs the loadSession effect, which sends its lookup.
JoinUpsertAt(k, c, res) ==
  LET j == join[k]
      failed == res = "error" \/ SessionById(j.sessionId) = {}
      st2 == JoinState(ctl[c], j.trimmedSession, j.trimmedAlias, j.sessionId)
  IN
  /\ j.pc = "upsert"
  /\ join' = [ join EXCEPT ![k] = IdleJoin ]
  /\ IF failed
     THEN /\ ctl' = [ ctl EXCEPT ![c].joinError = ErrUnreachable,
                                 ![c].joining = FALSE ]
          /\ UNCHANGED << participants, ls, loadReq, notif, liveRooms,
                          streams >>
     ELSE /\ participants' = Upsert(participants, j.sessionId,
                                    j.trimmedAlias, now, j.clientToken)
          /\ ls' = [ ls EXCEPT ![c] =
                       JoinStorage(@, j.trimmedSession, j.trimmedAlias,
                                   j.clientToken) ]
          /\ ctl' = [ ctl EXCEPT ![c] = st2 ]
          /\ loadReq' = [ loadReq EXCEPT ![c] =
                            [ pc |-> "sent", cCode |-> st2.sessionCode,
                              cAlias |-> st2.alias ] ]
          /\ Settle(c, st2)
  /\ UNCHANGED << now, sessions, nextToken, channels, broadcasts, teacher,
                  obs >>
  /\ UNCHANGED << handlers, conns >>

\* The upsert of the one joinSession call a page makes by itself.
JoinUpsert(c, res) == JoinUpsertAt(c, c, res)

\* ---------------------------------------------- session re-validation
\* Continuation of loadSession (lines 73-90); its error is not read, so a
\* failed lookup has no data. resetSession is the closure of the render
\* that started the lookup.
LoadSessionResponse(c, res) ==
  LET r == loadReq[c]
      found == IF res = "error" THEN {} ELSE SessionByCode(r.cCode)
      session == CHOOSE s \in found : TRUE
      gone == found = {} \/ IsExpired(session.expiresAt, now)
      st2 == IF gone THEN LeaveState(ctl[c], "")
             ELSE [ ctl[c] EXCEPT !.sessionId = session.id,
                                  !.sessionExpiresAt = session.expiresAt,
                                  !.timers = ExpiryEffect(
                                                @, ctl[c].sessionExpiresAt,
                                                session.expiresAt) ]
  IN
  /\ r.pc = "sent"
  /\ loadReq' = [ loadReq EXCEPT ![c] = NoRequest ]
  /\ ctl' = [ ctl EXCEPT ![c] = st2 ]
  /\ ls' = IF gone
           THEN [ ls EXCEPT ![c] = LeaveStorage(@, r.cCode, r.cAlias) ]
           ELSE ls
  /\ Settle(c, st2)
  /\ UNCHANGED << now, sessions, participants, nextToken, join, channels,
                  broadcasts, teacher, obs >>
  /\ UNCHANGED << handlers, conns >>

\* resetSession of the expiry effect (lines 94-105): at once when the
\* delay is not positive, otherwise when the timer fires.
ExpiryTimer(c) ==
  LET st == ctl[c]
      st2 == LeaveState(st, "")
  IN
  /\ st.mounted
  /\ \E t \in st.timers : t - now <= 0
  /\ ctl' = [ ctl EXCEPT ![c] = st2 ]
  /\ ls' = [ ls EXCEPT ![c] = LeaveStorage(@, st.sessionCode, st.alias) ]
  /\ Settle(c, st2)
  /\ UNCHANGED << now, sessions, participants, nextToken, join, loadReq,
                  channels, broadcasts, teacher, obs >>
  /\ UNCHANGED << handlers, conns >>

\* -------------------------------------------------------------- heartbeat
\* A heartbeat continuation that treats a failed touch like an empty one.
HeartbeatThenStrict(error, n) ==
  IF error \/ n = 0 THEN "leave" ELSE "stay"

\* .then(({ data, error }) => ...) of the heartbeat (lines 116-121);
\* n is data.length
HeartbeatThen(error, n) ==
  IF error THEN "ignore" ELSE IF n = 0 THEN "leave" ELSE "stay"

\* update() of the heartbeat effect, called when the effect starts and
\* then every 30 s, with its response.
Heartbeat(c, res) ==
  LET st == ctl[c]
      matched == Rows(st.sessionId, st.alias)
      verdict == HeartbeatThen(res = "error", Cardinality(matched))
      st2 == IF verdict = "leave" THEN LeaveState(st, MsgRemoved) ELSE st
  IN
  /\ st.mounted
  /\ st.sessionId # 0 /\ Truthy(st.alias) /\ st.isJoined
  /\ participants' = IF res = "error" THEN participants
                     ELSE Touch(participants, st.sessionId, st.alias, now)
  /\ ctl' = [ ctl EXCEPT ![c] = st2 ]
  /\ ls' = IF verdict = "leave"
           THEN [ ls EXCEPT ![c] = LeaveStorage(@, st.sessionCode, st.alias) ]
           ELSE ls
  /\ obs' = [ obs EXCEPT
                ![c].hbResult = IF res = "error" THEN "error"
                                ELSE IF matched = {} THEN "gone" ELSE "ok",
                ![c].hbAfterEvict = @ \/ (obs[c].evicted /\ res = "ok"),
                ![c].signal = IF verdict = "leave" THEN "heartbeat" ELSE @,
                ![c].room = IF verdict = "leave" THEN roomId(c) ELSE @ ]
  /\ Settle(c, st2)
  /\ UNCHANGED << now, sessions, nextToken, join, loadReq, channels,
                  broadcasts, teacher >>
  /\ UNCHANGED << handlers, conns >>

\* ------------------------------------------------------- push eviction
\* source.onmessage of the kick effect (lines 193-202)
StudentOnMessage(c) ==
  LET sub == StudentSub(c, roomId(c))
      frame == Head(streams[sub])
      st2 == IF frame.type = "kick" THEN LeaveState(ctl[c], MsgRemoved)
             ELSE ctl[c]
  IN
  /\ sub \in DOMAIN streams
  /\ streams[sub] # <<>>
  /\ ctl' = [ ctl EXCEPT ![c] = st2 ]
  /\ IF frame.type = "kick"
     THEN /\ ls' = [ ls EXCEPT ![c] =
                       LeaveStorage(@, ctl[c].sessionCode, ctl[c].alias) ]
          /\ obs' = [ obs EXCEPT ![c].signal = "kick",
                                 ![c].room = roomId(c) ]
          /\ Settle(c, st2)
     ELSE /\ streams' = [ streams EXCEPT ![sub] = Tail(@) ]
          /\ UNCHANGED << ls, obs, liveRooms, notif >>
  /\ UNCHANGED << now, sessions, participants, nextToken, join, loadReq,
                  channels, broadcasts, teacher >>
  /\ UNCHANGED << handlers, conns >>

\* postgres_changes DELETE handler of the participant-kick channel
\* (lines 140-145); a is payload.old.alias
DeleteNotifReceive(c, a) ==
  LET hit == a = ctl[c].alias
      st2 == IF hit THEN LeaveState(ctl[c], MsgRemoved) ELSE ctl[c]
      old == roomId(c)
  IN
  /\ a \in notif[c]
  /\ ctl' = [ ctl EXCEPT ![c] = st2 ]
  /\ ls' = IF hit
           THEN [ ls EXCEPT ![c] =
                    LeaveStorage(@, ctl[c].sessionCode, ctl[c].alias) ]
           ELSE ls
  /\ obs' = IF hit
            THEN [ obs EXCEPT ![c].signal = "delete", ![c].room = roomId(c) ]
            ELSE obs
  /\ notif' = [ notif EXCEPT ![c] = IF hit THEN {} ELSE @ \ {a} ]
  /\ liveRooms' = IF hit
                  THEN RemoveSubscriber(liveRooms, old, StudentSub(c, old))
                  ELSE liveRooms
  /\ streams' = IF hit
                THEN [ s \in (DOMAIN streams) \ {StudentSub(c, old)} |->
                         streams[s] ]
                ELSE streams
  /\ UNCHANGED << now, sessions, participants, nextToken, join, loadReq,
                  channels, broadcasts, teacher >>
  /\ UNCHANGED << handlers, conns >>

\* ------------------------------------------------------------ teacher view
StartsWith(s, prefix) ==
  Len(s) >= Len(prefix) /\ SubSeq(s, 1, Len(prefix)) = prefix

\* The effect on sessionCodes: rooms of codes no longer listed are dropped.
RoomsOfCodes(rooms, codes) ==
  [ r \in { q \in DOMAIN rooms :
              \E code \in codes : StartsWith(q, code \o <<":">>) } |->
      rooms[r] ]

\* delete from sessions where expires_at < now(), participants cascading
LiveSessions(t) == { s \in sessions : ~(s.expiresAt < t) }

RowsOfSessions(ss) ==
  { p \in participants : \E s \in ss : s.id = p.sessionId }

\* DELETE payloads reach the participant-kick channel filtered on the
\* session id of the subscribing controller
NotifyDeletes(deleted) ==
  [ c \in Clients |->
      notif[c] \cup
        { p.alias : p \in { q \in deleted :
                              /\ ctl[c].isJoined
                              /\ ctl[c].sessionId # 0
                              /\ Truthy(ctl[c].alias)
                              /\ q.sessionId = ctl[c].sessionId } } ]

\* loadActiveSessions, every 10 s
TeacherLoadActiveSessions ==
  LET codes == { s.code : s \in { q \in sessions : q.expiresAt > now } } IN
  /\ teacher' = [ teacher EXCEPT
                    !.sessionCodes = codes,
                    !.rooms = RoomsOfCodes(@, codes) ]
  /\ UNCHANGED << now, sessions, participants, nextToken, ls, ctl, join,
                  loadReq, notif, liveRooms, streams, channels, broadcasts,
                  obs >>
  /\ UNCHANGED << handlers, conns >>

\* syncParticipants, every 10 s while sessionCodes is not empty
TeacherSyncParticipants ==
  LET listed == { s \in sessions : s.code \in teacher.sessionCodes }
      expired == { s \in listed : IsExpired(s.expiresAt, now) }
      kept == IF expired = {} THEN sessions ELSE LiveSessions(now) \ expired
      codes == { code \in teacher.sessionCodes :
                   ~\E s \in expired : s.code = code }
      rows == RowsOfSessions(listed \cap kept)
      ids == { PairKey((CHOOSE s \in listed : s.id = p.sessionId).code,
                       p.alias) : p \in rows }
  IN
  /\ teacher.sessionCodes # {}
  /\ listed # {}
  /\ sessions' = kept
  /\ participants' = RowsOfSessions(kept)
  /\ notif' = NotifyDeletes(participants \ RowsOfSessions(kept))
  /\ teacher' = [ teacher EXCEPT
                    !.sessionCodes = codes,
                    !.rooms = RoomsOfCodes(
                                [ r \in ids |->
                                    IF r \in DOMAIN teacher.rooms
                                    THEN teacher.rooms[r] ELSE MakeRoom ],
                                codes) ]
  /\ UNCHANGED << now, nextToken, ls, ctl, join, loadReq, liveRooms,
                  streams, channels, broadcasts, obs >>
  /\ UNCHANGED << handlers, conns >>

\* The rooms with an open EventSource on the teacher page (sourcesRef)
TeacherSources ==
  { r \in DOMAIN liveRooms : TeacherSub(r) \in liveRooms[r] }

\* The sources effect of TeacherPage (lines 1098-1192): the EventSource of
\* every room that left the list is closed, one is opened for every new
\* room.
TeacherSourcesEffect ==
  LET ids == DOMAIN teacher.rooms
      subsOf(r) ==
        ((IF r \in DOMAIN liveRooms THEN liveRooms[r] ELSE {})
           \ {TeacherSub(r)})
          \cup (IF r \in ids THEN {TeacherSub(r)} ELSE {})
  IN
  /\ TeacherSources # ids
  /\ liveRooms' =
       [ r \in { q \in (DOMAIN liveRooms) \cup ids : subsOf(q) # {} } |->
           subsOf(r) ]
  /\ streams' =
       [ sub \in { q \in DOMAIN streams : q[1] # Teacher }
                   \cup { TeacherSub(r) : r \in ids } |->
           IF sub \in DOMAIN streams THEN streams[sub] ELSE <<>> ]
  /\ UNCHANGED << now, sessions, participants, nextToken, ls, ctl, join,
                  loadReq, notif, channels, broadcasts, teacher, obs >>
  /\ UNCHANGED << handlers, conns >>

\* removeParticipant(roomId): the row is deleted, then a kick event is
\* posted to /api/live; posted is FALSE when that fetch fails.
TeacherRemoveParticipant(rid, posted) ==
  LET parts == Split(rid)
      found == SessionByCode(parts[1])
      session == CHOOSE s \in found : TRUE
      deleted == Rows(session.id, parts[2])
      kick == Event("kick", <<>>, now)
  IN
  /\ rid \in DOMAIN teacher.rooms
  /\ Len(parts) >= 2 /\ Truthy(parts[1]) /\ Truthy(parts[2])
  /\ found # {}
  /\ posted => CanPublish(rid)
  /\ participants' = participants \ deleted
  /\ notif' = NotifyDeletes(deleted)
  /\ liveRooms' = IF posted THEN PublishEvent(liveRooms, rid, {})
                  ELSE liveRooms
  /\ streams' = IF posted THEN Enqueue(liveRooms, streams, rid, {}, kick)
                ELSE streams
  /\ obs' = [ c \in Clients |->
                IF /\ ctl[c].isJoined
                   /\ \E p \in deleted : /\ p.sessionId = ctl[c].sessionId
                                         /\ p.alias = ctl[c].alias
                THEN [ obs[c] EXCEPT !.evicted = TRUE ]
                ELSE obs[c] ]
  /\ UNCHANGED << now, sessions, nextToken, ls, ctl, join, loadReq,
                  channels, broadcasts, teacher >>
  /\ UNCHANGED << handlers, conns >>

\* The task branch of source.onmessage (lines 1129-1136): updateRoom with
\* payload.equation (payload.operation is written by the same call)
ApplyTask(t, rid, equation, ts) ==
  [ t EXCEPT !.rooms[rid].equation = equation,
             !.rooms[rid].taskTs = IF ts > @ THEN ts ELSE @ ]

\* source.onmessage of TeacherPage (lines 1118-1189), for the event types
\* of this model
TeacherOnMessage(rid) ==
  LET sub == TeacherSub(rid)
      frame == Head(streams[sub])
  IN
  /\ sub \in DOMAIN streams
  /\ streams[sub] # <<>>
  /\ streams' = [ streams EXCEPT ![sub] = Tail(@) ]
  /\ teacher' = IF frame.type = "task" /\ rid \in DOMAIN teacher.rooms
                THEN ApplyTask(teacher, rid, frame.equation, frame.ts)
                ELSE teacher
  /\ UNCHANGED << now, sessions, participants, nextToken, ls, ctl, join,
                  loadReq, notif, liveRooms, channels, broadcasts, obs >>
  /\ UNCHANGED << handlers, conns >>

\* cron: select public.delete_expired_sessions(), every 5 minutes
SweepExpired ==
  /\ sessions' = LiveSessions(now)
  /\ sessions' # sessions
  /\ participants' = RowsOfSessions(sessions')
  /\ notif' = NotifyDeletes(participants \ participants')
  /\ UNCHANGED << now, nextToken, ls, ctl, join, loadReq, liveRooms,
                  streams, channels, broadcasts, teacher, obs >>
  /\ UNCHANGED << handlers, conns >>

\* ------------------------------------------------- managed channel relay
\* The handlers of a room in the handlers map of utils/liveRealtime.
\* subscribeLiveEvents is its only writer and no page calls it, so the map
\* stays empty unless the function is called directly.
Handlers(c, room) ==
  IF room \in DOMAIN handlers[c]
  THEN { handlers[c][room][i] : i \in 1..Len(handlers[c][room]) }
  ELSE {}

\* set.delete(handler) and, when the set is empty, handlers.delete(roomId)
\* (lines 143-147)
DropHandler(hmap, room, h) ==
  IF room \notin DOMAIN hmap THEN hmap
  ELSE LET rest == SelectSeq(hmap[room], LAMBDA x : x # h)
       IN IF rest = <<>> THEN [ r \in (DOMAIN hmap) \ {room} |-> hmap[r] ]
          ELSE [ hmap EXCEPT ![room] = rest ]

\* channel.unsubscribe(); channels.delete(roomId), when the last handler of
\* the room has gone (lines 147-153)
DropChannel(hmap, chans, room, h) ==
  IF room \in DOMAIN hmap /\ room \notin DOMAIN DropHandler(hmap, room, h)
  THEN chans \ {room}
  ELSE chans

\* The handler "h1" calls, in its body, the unsubscribe function that
\* subscribeLiveEvents returned for the handler "h2"; "h2" only reads the
\* event.
Unsubscriber == "h1"

Victim == "h2"

\* The loop of the broadcast handler (lines 116-118) over the snapshot
\* `queue` = Array.from(roomHandlers): each handler is called with the
\* event, whether or not it is still in the map; `late` collects the
\* handlers called after they had been unsubscribed.
RECURSIVE Dispatch(_, _, _, _, _, _)
Dispatch(queue, room, hmap, chans, invoked, late) ==
  IF queue = <<>>
  THEN [ handlers |-> hmap, channels |-> chans,
         invoked |-> invoked, late |-> late ]
  ELSE LET h == Head(queue)
           registered == room \in DOMAIN hmap
                         /\ \E i \in 1..Len(hmap[room]) : hmap[room][i] = h
           kicks == h = Unsubscriber
       IN Dispatch(Tail(queue), room,
                   IF kicks THEN DropHandler(hmap, room, Victim) ELSE hmap,
                   IF kicks THEN DropChannel(hmap, chans, room, Victim)
                   ELSE chans,
                   Append(invoked, h),
                   IF registered THEN late ELSE late \cup {h})

\* The broadcast handler of ensureChannel (lines 112-119) on device c.
Delivered(c, room) ==
  IF room \in channels[c] /\ room \in DOMAIN handlers[c]
  THEN Dispatch(handlers[c][room], room, handlers[c], channels[c], <<>>, {})
  ELSE [ handlers |-> handlers[c], channels |-> channels[c],
         invoked |-> <<>>, late |-> {} ]

\* Device c1 runs the practice page, whose TaskRenderer emits through
\* sendLiveEvent; device c2 runs LigningerPage, which posts to /api/live.
UsesManagedChannel(c) == c = "c1"

TeacherSubscribed(room) ==
  room \in DOMAIN liveRooms /\ TeacherSub(room) \in liveRooms[room]

\* The task effect of a student page: emitLiveEvent({ type: "task", ... }).
\* arrives is FALSE when the fetch of the posting page fails.
StudentEmitTask(c, eq, arrives) ==
  LET room == roomId(c)
      event == Event("task", eq, now)
  IN
  /\ ctl[c].mounted
  /\ room # <<>>
  /\ IF UsesManagedChannel(c)
     THEN /\ arrives
          /\ channels' = [ channels EXCEPT ![c] = @ \cup {room} ]
          /\ broadcasts' = broadcasts \cup { [ room |-> room, event |-> event ] }
          /\ UNCHANGED << liveRooms, streams >>
     ELSE /\ arrives => CanPublish(room)
          /\ liveRooms' = IF arrives THEN PublishEvent(liveRooms, room, {})
                          ELSE liveRooms
          /\ streams' = IF arrives
                        THEN Enqueue(liveRooms, streams, room, {}, event)
                        ELSE streams
          /\ UNCHANGED << channels, broadcasts >>
  /\ obs' = [ obs EXCEPT ![c].task =
                IF arrives /\ TeacherSubscribed(room) THEN eq ELSE <<>> ]
  /\ UNCHANGED << now, sessions, participants, nextToken, ls, ctl, join,
                  loadReq, notif, teacher >>
  /\ UNCHANGED << handlers, conns >>

\* The broadcast handler of ensureChannel (lines 112-119) on every device
\* that holds a channel of the room (broadcast: { self: true }).
BroadcastDeliver(m) ==
  /\ m \in broadcasts
  /\ broadcasts' = broadcasts \ {m}
  /\ handlers' = [ c \in Clients |-> Delivered(c, m.room).handlers ]
  /\ channels' = [ c \in Clients |-> Delivered(c, m.room).channels ]
  /\ obs' = [ c \in Clients |->
                [ obs[c] EXCEPT !.invoked = Delivered(c, m.room).invoked,
                                !.late = Delivered(c, m.room).late ] ]
  /\ UNCHANGED << now, sessions, participants, nextToken, ls, ctl, join,
                  loadReq, notif, liveRooms, streams, teacher, conns >>

\* ------------------------------------------------------------------- Spec
Results == { "ok", "error" }

Aliases == { TrimmedAlias(r) : r \in RawAliases }

StudentStep ==
  \/ \E c \in Clients, rawCode \in RawCodes, rawAlias \in RawAliases :
        HomeJoin(c, rawCode, rawAlias)
  \/ \E c \in Clients, url \in UrlCodes \cup {Null} : OpenActivity(c, url)
  \/ \E c \in Clients : ClosePage(c)
  \/ \E c \in Clients : AutoJoin(c)
  \/ \E c \in Clients, res \in Results : JoinLookup(c, res)
  \/ \E c \in Clients, res \in Results : JoinAliasCheck(c, res)
  \/ \E c \in Clients, res \in Results : JoinUpsert(c, res)
  \/ \E c \in Clients, res \in Results : LoadSessionResponse(c, res)
  \/ \E c \in Clients, res \in Results : Heartbeat(c, res)

Next ==
  \/ StudentStep
  \/ Tick
  \/ \E c \in Clients : ExpiryTimer(c)
  \/ SweepExpired

Spec == Init /\ [][Next]_vars

NextEvict ==
  \/ StudentStep
  \/ \E c \in Clients : StudentOnMessage(c)
  \/ \E c \in Clients, a \in Aliases : DeleteNotifReceive(c, a)
  \/ TeacherLoadActiveSessions
  \/ TeacherSyncParticipants
  \/ \E rid \in DOMAIN teacher.rooms, posted \in BOOLEAN :
        TeacherRemoveParticipant(rid, posted)

SpecEvict == Init /\ [][NextEvict]_vars

\* Two students are joined, as AB:x on the practice page and as AB:y on
\* LigningerPage; the teacher page has just been opened.
JoinedCtl(al) ==
  [ InitCtl EXCEPT
      !.mounted = TRUE, !.sessionCode = InitialCode, !.alias = al,
      !.sessionId = 1, !.sessionExpiresAt = InitialExpiresAt,
      !.isJoined = TRUE, !.hasGlobalIdentity = TRUE,
      !.identityChecked = TRUE, !.autoJoinRef = PairKey(InitialCode, al),
      !.timers = {InitialExpiresAt} ]

RelayAlias(c) == IF c = "c1" THEN <<"x">> ELSE <<"y">>

RelayToken(c) == IF c = "c1" THEN 1 ELSE 2

InitRelay ==
  /\ now = 0
  /\ sessions = { [ id |-> 1, code |-> InitialCode,
                    expiresAt |-> InitialExpiresAt ] }
  /\ participants = { [ sessionId |-> 1, alias |-> RelayAlias(c),
                        lastSeen |-> 0, token |-> RelayToken(c) ] :
                      c \in Clients }
  /\ nextToken = 3
  /\ ls = [ c \in Clients |->
              JoinStorage(InitStorage, InitialCode, RelayAlias(c),
                          RelayToken(c)) ]
  /\ ctl = [ c \in Clients |-> JoinedCtl(RelayAlias(c)) ]
  /\ join = [ c \in Clients |-> IdleJoin ]
  /\ loadReq = [ c \in Clients |-> NoRequest ]
  /\ notif = [ c \in Clients |-> {} ]
  /\ liveRooms = [ r \in { PairKey(InitialCode, RelayAlias(c)) : c \in Clients }
                     |-> { sub \in { StudentSub(c, r) : c \in Clients } :
                             r = PairKey(InitialCode, RelayAlias(sub[1])) } ]
  /\ streams = [ sub \in { StudentSub(c, PairKey(InitialCode, RelayAlias(c))) :
                             c \in Clients } |-> <<>> ]
  /\ channels = [ c \in Clients |-> {} ]
  /\ broadcasts = {}
  /\ teacher = InitTeacher
  /\ obs = [ c \in Clients |-> InitObs ]
  /\ handlers = [ c \in Clients |-> NoHandlers ]
  /\ conns = NoConns

NextRelay ==
  \/ TeacherLoadActiveSessions
  \/ TeacherSyncParticipants
  \/ TeacherSourcesEffect
  \/ \E c \in Clients, eq \in Equations, arrives \in BOOLEAN :
        StudentEmitTask(c, eq, arrives)
  \/ \E m \in broadcasts : BroadcastDeliver(m)
  \/ \E rid \in DOMAIN teacher.rooms : TeacherOnMessage(rid)
  \/ \E c \in Clients : StudentOnMessage(c)

SpecRelay == InitRelay /\ [][NextRelay]_vars

\* ------------------------------------------------- the hook's own API
\* The hook returns setSessionCode, setAlias, joinSession and leaveSession
\* (lines 326-342). SpecApi is one page lifetime of one device whose page
\* calls them directly, next to the effects of the hook.
ApiClient == "c1"

\* A second joinSession call that is in flight on the same page.
SecondCall == "c1.2"

JoinCalls == { ApiClient, SecondCall }

ApiRawCodes == RawCodes \cup { <<"c", "d">> }

ApiRawAliases == RawAliases \cup { <<":">> }

ApiCodes == { InitialCode, <<"C", "D">> }

ApiAliases == { <<"x">>, <<"y">> }

InitApi ==
  /\ now = 0
  /\ sessions = { [ id |-> 1, code |-> InitialCode,
                    expiresAt |-> InitialExpiresAt ] }
  /\ participants = {}
  /\ nextToken = 1
  /\ ls = [ c \in Clients |-> InitStorage ]
  /\ ctl = [ c \in Clients |->
               IF c = ApiClient THEN MountState(InitStorage, Null)
               ELSE InitCtl ]
  /\ join = [ k \in Clients \cup JoinCalls |-> IdleJoin ]
  /\ loadReq = [ c \in Clients |-> NoRequest ]
  /\ notif = [ c \in Clients |-> {} ]
  /\ liveRooms = [ r \in {} |-> {} ]
  /\ streams = [ s \in {} |-> <<>> ]
  /\ channels = [ c \in Clients |-> {} ]
  /\ broadcasts = {}
  /\ teacher = InitTeacher
  /\ obs = [ c \in Clients |-> InitObs ]
  /\ handlers = [ c \in Clients |-> NoHandlers ]
  /\ conns = NoConns

\* joinSession(nextSession, nextAlias) called by the page (lines 217-230):
\* normalises, validates, sets joining and sends the session lookup. The
\* function has no guard on a join that is already in flight.
ApiJoinSession(c, rawCode, rawAlias) ==
  LET st == ctl[c]
      code == TrimmedSession(rawCode)
      al == TrimmedAlias(rawAlias)
      k == IF join[c].pc = "idle" THEN c ELSE SecondCall
  IN
  /\ st.mounted
  /\ obs[c].calls < MaxCalls
  /\ obs' = [ obs EXCEPT ![c].calls = @ + 1,
                          ![c].lastCall = IF code = <<>> \/ al = <<>> THEN @
                                          ELSE PairKey(code, al) ]
  /\ IF code = <<>> \/ al = <<>>
     THEN /\ ctl' = [ ctl EXCEPT ![c].joinError = ErrEmpty ]
          /\ UNCHANGED join
     ELSE /\ join[k].pc = "idle"
          /\ ctl' = [ ctl EXCEPT ![c].joining = TRUE, ![c].joinError = "" ]
          /\ join' = [ join EXCEPT ![k] =
                         [ IdleJoin EXCEPT
                             !.pc = "lookup", !.trimmedSession = code,
                             !.trimmedAlias = al, !.cCode = st.sessionCode,
                             !.cAlias = st.alias ] ]
  /\ UNCHANGED << now, sessions, participants, nextToken, ls, loadReq,
                  notif, liveRooms, streams, channels, broadcasts, teacher >>
  /\ UNCHANGED << handlers, conns >>

\* The auto-join effect of the page, when its own call slot is free.
ApiAutoJoin(c) == join[c].pc = "idle" /\ AutoJoin(c)

\* setSessionCode(v) called by the page while no join is accepted or pending
ApiSetSessionCode(c, v) ==
  /\ ctl[c].mounted /\ ~ctl[c].isJoined /\ ~ctl[c].joining
  /\ v # ctl[c].sessionCode
  /\ ctl' = [ ctl EXCEPT ![c].sessionCode = v ]
  /\ UNCHANGED << now, sessions, participants, nextToken, ls, join, loadReq,
                  notif, liveRooms, streams, channels, broadcasts, teacher,
                  obs >>
  /\ UNCHANGED << handlers, conns >>

\* setAlias(v) called by the page while no join is accepted or pending
ApiSetAlias(c, v) ==
  /\ ctl[c].mounted /\ ~ctl[c].isJoined /\ ~ctl[c].joining
  /\ v # ctl[c].alias
  /\ ctl' = [ ctl EXCEPT ![c].alias = v ]
  /\ UNCHANGED << now, sessions, participants, nextToken, ls, join, loadReq,
                  notif, liveRooms, streams, channels, broadcasts, teacher,
                  obs >>
  /\ UNCHANGED << handlers, conns >>

NextApi ==
  \/ \E rawCode \in ApiRawCodes, rawAlias \in ApiRawAliases :
        ApiJoinSession(ApiClient, rawCode, rawAlias)
  \/ \E v \in ApiCodes : ApiSetSessionCode(ApiClient, v)
  \/ \E v \in ApiAliases : ApiSetAlias(ApiClient, v)
  \/ ApiAutoJoin(ApiClient)
  \/ \E k \in JoinCalls, res \in Results : JoinLookupAt(k, ApiClient, res)
  \/ \E k \in JoinCalls, res \in Results : JoinAliasCheckAt(k, ApiClient, res)
  \/ \E k \in JoinCalls, res \in Results : JoinUpsertAt(k, ApiClient, res)

SpecApi == InitApi /\ [][NextApi]_vars

\* --------------------------------------- memberships, one after another
\* SpecMember is one page lifetime of one device that joins, leaves and
\* joins again through joinSession and leaveSession, while the teacher
\* page lists and removes participants. The heartbeat update and its
\* response are two steps here: the store answers an update when it
\* receives it, and the .then continuation runs when the response arrives.
MemberRawAliases == RawAliases \cup { <<"y">> }

\* update() of the heartbeat effect (lines 109-115), up to the request
HeartbeatSend(c, res) ==
  LET st == ctl[c]
      matched == Rows(st.sessionId, st.alias)
  IN
  /\ st.mounted
  /\ st.sessionId # 0 /\ Truthy(st.alias) /\ st.isJoined
  /\ st.beat.pc = "idle"
  /\ participants' = IF res = "error" THEN participants
                     ELSE Touch(participants, st.sessionId, st.alias, now)
  /\ ctl' = [ ctl EXCEPT ![c].beat =
                 [ pc |-> "sent",
                   result |-> IF res = "error" THEN "error"
                              ELSE IF matched = {} THEN "gone" ELSE "ok",
                   cCode |-> st.sessionCode, cAlias |-> st.alias,
                   tok |-> ExistingToken(ls[c],
                                         PairKey(st.sessionCode, st.alias)) ] ]
  /\ UNCHANGED << now, sessions, nextToken, ls, join, loadReq, notif,
                  liveRooms, streams, channels, broadcasts, teacher, obs,
                  handlers, conns >>

\* .then(({ data, error }) => ...) of the heartbeat (lines 116-121), when
\* the response arrives; leaveSession is the closure of the render whose
\* effect sent the update.
HeartbeatAnswer(c) ==
  LET b == ctl[c].beat
      verdict == HeartbeatThen(b.result = "error",
                               IF b.result = "ok" THEN 1 ELSE 0)
      st1 == [ ctl[c] EXCEPT !.beat = NoBeat ]
      st2 == IF verdict = "leave" THEN LeaveState(st1, MsgRemoved) ELSE st1
  IN
  /\ b.pc = "sent"
  /\ ctl' = [ ctl EXCEPT ![c] = st2 ]
  /\ ls' = IF verdict = "leave"
           THEN [ ls EXCEPT ![c] = LeaveStorage(@, b.cCode, b.cAlias) ]
           ELSE ls
  /\ Settle(c, st2)
  /\ UNCHANGED << now, sessions, participants, nextToken, join, loadReq,
                  channels, broadcasts, teacher, obs, handlers, conns >>

\* leaveSession() called by the page (lines 302-320)
ApiLeaveSession(c) ==
  LET st == ctl[c]
      st2 == LeaveState(st, "")
  IN
  /\ st.mounted
  /\ ctl' = [ ctl EXCEPT ![c] = st2 ]
  /\ ls' = [ ls EXCEPT ![c] = LeaveStorage(@, st.sessionCode, st.alias) ]
  /\ Settle(c, st2)
  /\ UNCHANGED << now, sessions, participants, nextToken, join, loadReq,
                  channels, broadcasts, teacher, obs, handlers, conns >>

\* joinSession called from the join form, which the page shows while it
\* is not joined and no join is running.
MemberJoinSession(c, rawCode, rawAlias) ==
  /\ ~ctl[c].isJoined
  /\ join[c].pc = "idle"
  /\ ApiJoinSession(c, rawCode, rawAlias)

NextMember ==
  \/ \E rawCode \in RawCodes, rawAlias \in MemberRawAliases :
        MemberJoinSession(ApiClient, rawCode, rawAlias)
  \/ \E res \in Results : JoinLookup(ApiClient, res)
  \/ \E res \in Results : JoinAliasCheck(ApiClient, res)
  \/ \E res \in Results : JoinUpsert(ApiClient, res)
  \/ \E res \in Results : LoadSessionResponse(ApiClient, res)
  \/ \E res \in Results : HeartbeatSend(ApiClient, res)
  \/ HeartbeatAnswer(ApiClient)
  \/ ApiLeaveSession(ApiClient)
  \/ StudentOnMessage(ApiClient)
  \/ \E a \in Aliases \cup { <<"y">> } : DeleteNotifReceive(ApiClient, a)
  \/ TeacherLoadActiveSessions
  \/ TeacherSyncParticipants
  \/ \E rid \in DOMAIN teacher.rooms, posted \in BOOLEAN :
        TeacherRemoveParticipant(rid, posted)

SpecMember == InitApi /\ [][NextMember]_vars

\* --------------------------------------------------- the presence beacon
\* SpecBeacon is one page lifetime of one device that is joined as AB:x
\* when the model starts, with the presence effect of lines 154-186 set
\* up. Every step that changes the room id runs the cleanup and the body
\* of the effect in the same step, as React does at the commit.
MaxListeners == 3

BeaconAliases == { <<"x">>, <<"y">> }

\* sendPresence(state) of the effect created for `room` (lines 156-166)
SendPresence(room, state) == [ room |-> room, state |-> state ]

\* The cleanup of the effect (lines 182-185)
PresenceCleanup(p) == [ p EXCEPT !.interval = <<>>, !.onVisibility = <<>> ]

\* The body of the effect for a non-empty room (lines 176-180), emitters
PresenceSetup(p, room) ==
  [ p EXCEPT !.interval = room, !.onVisibility = room,
             !.unload = Append(@, room) ]

\* The effect when roomId changes from old to new: the emitters afterwards
PresenceEffect(p, old, new) ==
  IF new = old THEN p
  ELSE IF new = <<>> THEN PresenceCleanup(p)
  ELSE PresenceSetup(PresenceCleanup(p), new)

\* The controller state becomes st2: the effects that depend on the room
\* id run, the presence effect among them, which posts 'open' for a new
\* room (line 176).
BeaconCommit(c, st2) ==
  LET old == roomId(c)
      new == RoomIdOf(st2)
      p2 == PresenceEffect(ctl[c].presence, old, new)
  IN
  /\ ctl' = [ ctl EXCEPT ![c] = [ st2 EXCEPT !.presence = p2 ] ]
  /\ obs' = [ obs EXCEPT ![c].sent =
                 IF new # old /\ new # <<>>
                 THEN << SendPresence(new, "open") >> ELSE <<>> ]
  /\ Settle(c, st2)

InitBeacon ==
  /\ now = 0
  /\ sessions = { [ id |-> 1, code |-> InitialCode,
                    expiresAt |-> InitialExpiresAt ] }
  /\ participants = { [ sessionId |-> 1, alias |-> <<"x">>, lastSeen |-> 0,
                        token |-> 1 ] }
  /\ nextToken = 2
  /\ ls = [ c \in Clients |->
              IF c = ApiClient
              THEN JoinStorage(InitStorage, InitialCode, <<"x">>, 1)
              ELSE InitStorage ]
  /\ ctl = [ c \in Clients |->
               IF c = ApiClient
               THEN [ JoinedCtl(<<"x">>) EXCEPT
                        !.presence = PresenceSetup(NoPresence,
                                                   PairKey(InitialCode, <<"x">>)) ]
               ELSE InitCtl ]
  /\ join = [ k \in Clients \cup JoinCalls |-> IdleJoin ]
  /\ loadReq = [ c \in Clients |-> NoRequest ]
  /\ notif = [ c \in Clients |-> {} ]
  /\ liveRooms = [ r \in { PairKey(InitialCode, <<"x">>) } |->
                     { StudentSub(ApiClient, r) } ]
  /\ streams = [ sub \in { StudentSub(ApiClient, PairKey(InitialCode, <<"x">>)) }
                   |-> <<>> ]
  /\ channels = [ c \in Clients |-> {} ]
  /\ broadcasts = {}
  /\ teacher = InitTeacher
  /\ obs = [ c \in Clients |->
               IF c = ApiClient
               THEN [ InitObs EXCEPT !.sent =
                        << SendPresence(PairKey(InitialCode, <<"x">>), "open") >> ]
               ELSE InitObs ]
  /\ handlers = [ c \in Clients |-> NoHandlers ]
  /\ conns = NoConns

\* setInterval(() => sendPresence("open"), 10000) fires (line 177)
BeaconInterval(c) ==
  LET p == ctl[c].presence IN
  /\ ctl[c].mounted
  /\ p.interval # <<>>
  /\ obs' = [ obs EXCEPT ![c].sent = << SendPresence(p.interval, "open") >> ]
  /\ UNCHANGED << now, sessions, participants, nextToken, ls, ctl, join,
                  loadReq, notif, liveRooms, streams, channels, broadcasts,
                  teacher, handlers, conns >>

\* The document becomes hidden or visible; onVisibility (lines 168-174)
\* runs when it is registered.
BeaconVisibility(c) ==
  LET p == ctl[c].presence
      state == IF p.visible THEN "hidden" ELSE "open"
  IN
  /\ ctl[c].mounted
  /\ ctl' = [ ctl EXCEPT ![c].presence.visible = ~p.visible ]
  /\ obs' = [ obs EXCEPT ![c].sent =
                 IF p.onVisibility # <<>>
                 THEN << SendPresence(p.onVisibility, state) >> ELSE <<>> ]
  /\ UNCHANGED << now, sessions, participants, nextToken, ls, join,
                  loadReq, notif, liveRooms, streams, channels, broadcasts,
                  teacher, handlers, conns >>

\* The page is being torn down: pagehide or beforeunload is dispatched and
\* every listener added for it runs (lines 179-180).
BeaconPageTeardown(c) ==
  LET p == ctl[c].presence IN
  /\ ctl[c].mounted
  /\ obs' = [ obs EXCEPT ![c].sent =
                 [ i \in 1..Len(p.unload) |->
                     SendPresence(p.unload[i], "closed") ] ]
  /\ UNCHANGED << now, sessions, participants, nextToken, ls, ctl, join,
                  loadReq, notif, liveRooms, streams, channels, broadcasts,
                  teacher, handlers, conns >>

\* leaveSession (lines 302-320), called by the page or by an eviction or
\* expiry handler, with the effects of the commit.
BeaconLeave(c) ==
  LET st == ctl[c] IN
  /\ st.mounted /\ st.isJoined
  /\ BeaconCommit(c, LeaveState(st, ""))
  /\ ls' = [ ls EXCEPT ![c] = LeaveStorage(@, st.sessionCode, st.alias) ]
  /\ UNCHANGED << now, sessions, participants, nextToken, join, loadReq,
                  channels, broadcasts, teacher, handlers, conns >>

\* The success path of joinSession (lines 269-299) for the alias al of
\* session AB, with the effects of the commit.
BeaconJoinAccepted(c, al) ==
  LET st == ctl[c]
      key == PairKey(InitialCode, al)
      existingToken == ExistingToken(ls[c], key)
      fresh == existingToken = NoToken
      clientToken == IF fresh THEN nextToken ELSE existingToken
  IN
  /\ st.mounted
  /\ roomId(c) # key
  /\ Len(st.presence.unload) < MaxListeners
  /\ fresh => nextToken <= MaxTokens
  /\ nextToken' = IF fresh THEN nextToken + 1 ELSE nextToken
  /\ participants' = Upsert(participants, 1, al, now, clientToken)
  /\ ls' = [ ls EXCEPT ![c] = JoinStorage(@, InitialCode, al, clientToken) ]
  /\ BeaconCommit(c, JoinState(st, InitialCode, al, 1))
  /\ UNCHANGED << now, sessions, join, loadReq, channels, broadcasts,
                  teacher, handlers, conns >>

NextBeacon ==
  \/ BeaconInterval(ApiClient)
  \/ BeaconVisibility(ApiClient)
  \/ BeaconPageTeardown(ApiClient)
  \/ BeaconLeave(ApiClient)
  \/ \E al \in BeaconAliases : BeaconJoinAccepted(ApiClient, al)

SpecBeacon == InitBeacon /\ [][NextBeacon]_vars

\* ------------------------------------------------- typed aliases, reloads
\* SpecAlias is one device whose user types an alias into the join form,
\* joins, and reloads the page, which joins again from local storage. The
\* typed alias is any string of at most MaxAliasLen characters.
MaxAliasLen == 3

AliasChars == { "x", " ", ":" }

TypedAliases == UNION { [ 1..n -> AliasChars ] : n \in 0..MaxAliasLen }

\* The join form of a device that has no stored identity yet.
TypedJoinSession(c, rawCode, rawAlias) ==
  /\ ls[c] = InitStorage
  /\ MemberJoinSession(c, rawCode, rawAlias)

NextAlias ==
  \/ \E rawCode \in RawCodes, rawAlias \in TypedAliases :
        TypedJoinSession(ApiClient, rawCode, rawAlias)
  \/ \E res \in Results : JoinLookup(ApiClient, res)
  \/ \E res \in Results : JoinAliasCheck(ApiClient, res)
  \/ \E res \in Results : JoinUpsert(ApiClient, res)
  \/ LoadSessionResponse(ApiClient, "ok")
  \/ ClosePage(ApiClient)
  \/ OpenActivity(ApiClient, Null)
  \/ AutoJoin(ApiClient)

SpecAlias == InitApi /\ [][NextAlias]_vars

\* ------------------------------------------------ the server-push route
\* GET /api/live opens an event stream, POST /api/live publishes to a room
\* (src/app/api/live/route.ts). A connection is the pair of the client that
\* opened it and its room; its controller is the subscriber of that name.
BusPeers == { "k1", "k2" }

BusRooms == { PairKey(InitialCode, <<"x">>), PairKey(InitialCode, <<"y">>) }

BusEquations == { <<"1">>, <<"2">> }

\* controller.enqueue(encoder.encode(": ok\n\n"))
OkFrame == Event(": ok", <<>>, 0)

\* controller.enqueue(encoder.encode(": ping\n\n"))
PingFrame == Event(": ping", <<>>, 0)

\* The connections of peer k that have not been cancelled.
LiveConns(k) ==
  { sub \in DOMAIN conns : sub[1] = k /\ conns[sub].state # "cancelled" }

\* A cancel() that leaves the keep-alive interval running.
CancelledKeepsPing(conn) == [ conn EXCEPT !.state = "cancelled" ]

\* cancel(), connection part (lines 35-38): if (ping) clearInterval(ping)
Cancelled(conn) == [ conn EXCEPT !.state = "cancelled", !.ping = FALSE ]

\* GET: start(controller) (lines 27-34). A peer holds one connection at a
\* time; the record of its former, cancelled connection is dropped.
BusGet(k, room) ==
  LET sub == << k, room >>
      kept == { q \in DOMAIN conns : q[1] # k }
  IN
  /\ LiveConns(k) = {}
  /\ liveRooms' = AddSubscriber(liveRooms, room, sub)
  /\ streams' = [ q \in { x \in DOMAIN streams : x[1] # k } \cup {sub} |->
                    IF q = sub THEN <<OkFrame>> ELSE streams[q] ]
  /\ conns' = [ q \in kept \cup {sub} |->
                  IF q = sub THEN [ state |-> "open", ping |-> TRUE ]
                  ELSE conns[q] ]
  /\ UNCHANGED << now, sessions, participants, nextToken, ls, ctl, join,
                  loadReq, notif, channels, broadcasts, teacher, obs,
                  handlers >>

\* The keep-alive interval fires (lines 31-33); enqueue throws on a stream
\* that is no longer writable and the frame is lost.
BusPing(sub) ==
  /\ sub \in DOMAIN conns
  /\ conns[sub].ping
  /\ conns[sub].state = "open" => Len(streams[sub]) < MaxQueue
  /\ streams' = IF conns[sub].state = "open"
                THEN [ streams EXCEPT ![sub] = Append(@, PingFrame) ]
                ELSE streams
  /\ UNCHANGED << now, sessions, participants, nextToken, ls, ctl, join,
                  loadReq, notif, liveRooms, channels, broadcasts, teacher,
                  obs, handlers, conns >>

\* The client reads the next frame of its stream.
BusRead(sub) ==
  /\ sub \in DOMAIN conns
  /\ conns[sub].state = "open"
  /\ streams[sub] # <<>>
  /\ streams' = [ streams EXCEPT ![sub] = Tail(@) ]
  /\ UNCHANGED << now, sessions, participants, nextToken, ls, ctl, join,
                  loadReq, notif, liveRooms, channels, broadcasts, teacher,
                  obs, handlers, conns >>

\* The stream stops being writable without cancel() having run: from now
\* on controller.enqueue throws.
BusBreak(sub) ==
  /\ sub \in DOMAIN conns
  /\ conns[sub].state = "open"
  /\ conns' = [ conns EXCEPT ![sub].state = "broken" ]
  /\ UNCHANGED << now, sessions, participants, nextToken, ls, ctl, join,
                  loadReq, notif, liveRooms, streams, channels, broadcasts,
                  teacher, obs, handlers >>

\* The client closes the connection: cancel() (lines 35-38).
BusCancel(sub) ==
  /\ sub \in DOMAIN conns
  /\ conns[sub].state = "open"
  /\ conns' = [ conns EXCEPT ![sub] = Cancelled(@) ]
  /\ liveRooms' = RemoveSubscriber(liveRooms, sub[2], sub)
  /\ UNCHANGED << now, sessions, participants, nextToken, ls, ctl, join,
                  loadReq, notif, streams, channels, broadcasts, teacher,
                  obs, handlers >>

\* The controllers of a room whose enqueue throws.
Failing(room) ==
  IF room \in DOMAIN liveRooms
  THEN { sub \in liveRooms[room] : conns[sub].state # "open" }
  ELSE {}

\* POST: publishEvent(body.room, body.event) (lines 6-13)
BusPost(room, eq) ==
  LET event == Event("task", eq, now)
      writable == [ r \in DOMAIN liveRooms |-> liveRooms[r] \ Failing(r) ]
  IN
  /\ room \in DOMAIN liveRooms =>
       \A sub \in writable[room] : Len(streams[sub]) < MaxQueue
  /\ liveRooms' = PublishEvent(liveRooms, room, Failing(room))
  /\ streams' = Enqueue(liveRooms, streams, room, Failing(room), event)
  /\ UNCHANGED << now, sessions, participants, nextToken, ls, ctl, join,
                  loadReq, notif, channels, broadcasts, teacher, obs,
                  handlers, conns >>

RouteStep ==
  \/ \E k \in BusPeers, room \in BusRooms : BusGet(k, room)
  \/ \E sub \in DOMAIN conns : BusPing(sub)
  \/ \E sub \in DOMAIN conns : BusRead(sub)
  \/ \E sub \in DOMAIN conns : BusBreak(sub)
  \/ \E sub \in DOMAIN conns : BusCancel(sub)
  \/ \E room \in BusRooms, eq \in BusEquations : BusPost(room, eq)

\* --------------------------------------------- the managed channel API
\* subscribeLiveEvents and sendLiveEvent of utils/liveRealtime called
\* directly by one browser page.
BusClient == "c1"

BusHandlers == { Unsubscriber, Victim }

BusChannelRooms == BusRooms

\* subscribeLiveEvents(roomId, handler) (lines 132-141)
BusSubscribe(c, room, h) ==
  LET old == IF room \in DOMAIN handlers[c] THEN handlers[c][room] ELSE <<>>
      new == IF h \in Handlers(c, room) THEN old ELSE Append(old, h)
  IN
  /\ handlers' = [ handlers EXCEPT ![c] =
                     [ r \in (DOMAIN @) \cup {room} |->
                         IF r = room THEN new ELSE @[r] ] ]
  /\ channels' = [ channels EXCEPT ![c] = @ \cup {room} ]
  /\ handlers' # handlers \/ channels' # channels
  /\ obs' = [ obs EXCEPT ![c].emptied = @ \ {room} ]
  /\ UNCHANGED << now, sessions, participants, nextToken, ls, ctl, join,
                  loadReq, notif, liveRooms, streams, broadcasts, teacher,
                  conns >>

\* The function subscribeLiveEvents returned for handler h (lines 142-154)
BusUnsubscribe(c, room, h) ==
  /\ h \in Handlers(c, room)
  /\ handlers' = [ handlers EXCEPT ![c] = DropHandler(@, room, h) ]
  /\ channels' = [ channels EXCEPT ![c] =
                     DropChannel(handlers[c], @, room, h) ]
  /\ obs' = [ obs EXCEPT ![c].emptied =
                 IF Handlers(c, room) = {h} THEN @ \cup {room} ELSE @ ]
  /\ UNCHANGED << now, sessions, participants, nextToken, ls, ctl, join,
                  loadReq, notif, liveRooms, streams, broadcasts, teacher,
                  conns >>

\* sendLiveEvent(roomId, event) (lines 126-130): ensureChannel, then send
BusSend(c, room, eq) ==
  /\ channels' = [ channels EXCEPT ![c] = @ \cup {room} ]
  /\ broadcasts' = broadcasts \cup
                     { [ room |-> room, event |-> Event("task", eq, now) ] }
  /\ channels' # channels \/ broadcasts' # broadcasts
  /\ UNCHANGED << now, sessions, participants, nextToken, ls, ctl, join,
                  loadReq, notif, liveRooms, streams, teacher, obs,
                  handlers, conns >>

ChannelStep ==
  \/ \E room \in BusChannelRooms, h \in BusHandlers :
        BusSubscribe(BusClient, room, h)
  \/ \E room \in BusChannelRooms, h \in BusHandlers :
        BusUnsubscribe(BusClient, room, h)
  \/ \E room \in BusChannelRooms, eq \in BusEquations :
        BusSend(BusClient, room, eq)
  \/ \E m \in broadcasts : BroadcastDeliver(m)

\* The route alone, and the managed channels of one page alone.
SpecRoute == Init /\ [][RouteStep]_vars

SpecChannel == Init /\ [][ChannelStep]_vars

\* ------------------------------------------------ the teacher's canvases
\* TeacherPage with the session AB tracked, the rooms AB:x and AB:y listed
\* and AB:x shown on the main canvas.
ViewRooms == BusRooms

ActiveRoom == PairKey(InitialCode, <<"x">>)

ViewTickMs == 10 * 1000

ViewTeacher ==
  [ InitTeacher EXCEPT !.sessionCodes = { InitialCode },
                       !.rooms = [ r \in ViewRooms |-> MakeRoom ],
                       !.clock = ViewTickMs,
                       !.activeRoom = ActiveRoom,
                       !.preview = [ r \in ViewRooms |-> 0 ] ]

InitView ==
  /\ now = ViewTickMs
  /\ sessions = { [ id |-> 1, code |-> InitialCode,
                    expiresAt |-> 90 * 60 * 1000 ] }
  /\ participants = {}
  /\ nextToken = 1
  /\ ls = [ c \in Clients |-> InitStorage ]
  /\ ctl = [ c \in Clients |-> InitCtl ]
  /\ join = [ c \in Clients |-> IdleJoin ]
  /\ loadReq = [ c \in Clients |-> NoRequest ]
  /\ notif = [ c \in Clients |-> {} ]
  /\ liveRooms = [ r \in {} |-> {} ]
  /\ streams = [ s \in {} |-> <<>> ]
  /\ channels = [ c \in Clients |-> {} ]
  /\ broadcasts = {}
  /\ teacher = ViewTeacher
  /\ obs = [ c \in Clients |-> InitObs ]
  /\ handlers = [ c \in Clients |-> NoHandlers ]
  /\ conns = NoConns

\* The timestamps the senders put on canvas events (payload.ts).
CanvasTimes == 1..MaxCanvasTs

CanvasTypes == { "canvas-clear", "canvas-snapshot", "canvas-stroke" }

\* lastCanvasTsRef.current.get(roomId) ?? 0
LastCanvasTs(t, rid) ==
  IF rid \in DOMAIN t.lastCanvasTs THEN t.lastCanvasTs[rid] ELSE 0

\* A check that lets every canvas event through.
ShouldApplyAlways(t, rid, ts) == TRUE

\* shouldApplyCanvasEvent(roomId, ts)
ShouldApplyCanvasEvent(t, rid, ts) == ts >= LastCanvasTs(t, rid)

\* setLastCanvasTs(roomId, ts)
SetLastCanvasTs(last, rid, ts) ==
  [ r \in (DOMAIN last) \cup {rid} |-> IF r = rid THEN ts ELSE last[r] ]

\* What an event paints on the main canvas: clearCanvas, the loaded image
\* of drawSnapshot (clearCanvas, then drawImage), drawStroke.
DrawOn(cv, type, ts) ==
  CASE type = "canvas-clear" -> BlankCanvas
    [] type = "canvas-snapshot" -> [ base |-> ts, strokes |-> {} ]
    [] type = "canvas-stroke" -> [ cv EXCEPT !.strokes = @ \cup {ts} ]

\* The images still loading for the main canvas.
MainLoads(t) == { l \in t.loading : l.target = <<"main">> }

\* The last two canvas events of the room on the main canvas, with the
\* canvas, the recorded timestamp and the absence of loading images before
\* each of them.
Recorded(t, type, ts) ==
  LET h == t.hist
      ev == [ type |-> type, ts |-> ts ]
      quiet == MainLoads(t) = {}
  IN IF Len(h.evs) = 0
     THEN [ h EXCEPT !.evs = << ev >>, !.c0 = t.canvas,
                     !.t0 = LastCanvasTs(t, t.activeRoom), !.k0 = quiet,
                     !.c1 = t.canvas,
                     !.t1 = LastCanvasTs(t, t.activeRoom), !.k1 = quiet ]
     ELSE [ evs |-> << h.evs[Len(h.evs)], ev >>,
            c0 |-> h.c1, t0 |-> h.t1, k0 |-> h.k1,
            c1 |-> t.canvas, t1 |-> LastCanvasTs(t, t.activeRoom),
            k1 |-> quiet ]

\* The three canvas branches of source.onmessage (lines 1163-1185).
CanvasHandled(t, rid, type, ts) ==
  LET active == rid = t.activeRoom
      img(target) == [ target |-> target, img |-> ts ]
  IN IF ~ShouldApplyCanvasEvent(t, rid, ts) THEN t
     ELSE [ t EXCEPT
              !.lastCanvasTs = SetLastCanvasTs(@, rid, ts),
              !.canvas = IF active /\ type # "canvas-snapshot"
                         THEN DrawOn(@, type, ts) ELSE @,
              !.preview = IF type = "canvas-clear"
                          THEN [ @ EXCEPT ![rid] = 0 ] ELSE @,
              !.loading = IF type = "canvas-snapshot"
                          THEN @ \cup { img(rid) } \cup
                                 (IF active THEN { img(<<"main">>) } ELSE {})
                          ELSE @ ]

\* source.onmessage with a canvas event of room rid
ViewCanvasEvent(rid, type, ts) ==
  LET handled == CanvasHandled(teacher, rid, type, ts) IN
  /\ rid \in DOMAIN teacher.rooms
  /\ Cardinality(handled.loading) <= MaxLoads
  /\ teacher' = [ handled EXCEPT
                    !.hist = IF rid = teacher.activeRoom
                             THEN Recorded(teacher, type, ts) ELSE @ ]
  /\ UNCHANGED << now, sessions, participants, nextToken, ls, ctl, join,
                  loadReq, notif, liveRooms, streams, channels, broadcasts,
                  obs, handlers, conns >>

\* img.onload of drawSnapshot (lines 1365-1371) and of drawPreviewSnapshot
\* (lines 1381-1386)
ViewImageLoaded(l) ==
  /\ l \in teacher.loading
  /\ teacher' = [ teacher EXCEPT
                    !.loading = @ \ {l},
                    !.canvas = IF l.target = <<"main">>
                               THEN DrawOn(@, "canvas-snapshot", l.img)
                               ELSE @,
                    !.preview = IF l.target = <<"main">> THEN @
                                ELSE [ @ EXCEPT ![l.target] = l.img ] ]
  /\ UNCHANGED << now, sessions, participants, nextToken, ls, ctl, join,
                  loadReq, notif, liveRooms, streams, channels, broadcasts,
                  obs, handlers, conns >>

NextCanvas ==
  \/ \E rid \in ViewRooms, type \in CanvasTypes, ts \in CanvasTimes :
        ViewCanvasEvent(rid, type, ts)
  \/ \E l \in teacher.loading : ViewImageLoaded(l)

SpecCanvas == InitView /\ [][NextCanvas]_vars

\* ------------------------------------------------ the teacher's presence
PRESENCE_TIMEOUT_MS == 20000

PresenceStates == { "open", "hidden", "closed" }

\* The clock advances; the interval of lines 1194-1197 (1 s) has fired
\* since the last advance.
ViewTick ==
  /\ teacher.clock = now
  /\ now + ViewTickMs <= MaxViewTicks * ViewTickMs
  /\ now' = now + ViewTickMs
  /\ UNCHANGED << sessions, participants, nextToken, ls, ctl, join,
                  loadReq, notif, liveRooms, streams, channels, broadcasts,
                  teacher, obs, handlers, conns >>

\* setInterval(() => setNow(Date.now()), 1000)
ViewRefreshNow ==
  /\ teacher.clock # now
  /\ teacher' = [ teacher EXCEPT !.clock = now ]
  /\ UNCHANGED << now, sessions, participants, nextToken, ls, ctl, join,
                  loadReq, notif, liveRooms, streams, channels, broadcasts,
                  obs, handlers, conns >>

\* source.onmessage with a presence event (lines 1145-1153)
ViewPresence(rid, state) ==
  /\ rid \in DOMAIN teacher.rooms
  /\ teacher' = [ teacher EXCEPT !.rooms[rid].lastPresenceAt = now,
                                 !.rooms[rid].presenceState = state ]
  /\ UNCHANGED << now, sessions, participants, nextToken, ls, ctl, join,
                  loadReq, notif, liveRooms, streams, channels, broadcasts,
                  obs, handlers, conns >>

\* A staleness test that never finds a room stale.
IsPresenceStaleNever(t, rid) == FALSE

\* isPresenceStale (lines 1802-1804); !room.lastPresenceAt holds for null
\* and for 0
IsPresenceStale(t, rid) ==
  \/ t.rooms[rid].lastPresenceAt = NoTime
  \/ t.rooms[rid].lastPresenceAt = 0
  \/ t.clock - t.rooms[rid].lastPresenceAt > PRESENCE_TIMEOUT_MS

\* presenceLabel (lines 1805-1810)
PresenceLabel(t, rid) ==
  IF \/ t.rooms[rid].presenceState = "closed"
     \/ t.rooms[rid].presenceState = "hidden"
     \/ IsPresenceStale(t, rid)
  THEN "CLOSED"
  ELSE "OPEN"

\* source.onmessage with a task event (lines 1129-1136); ts is payload.ts
ViewTask(rid, equation, ts) ==
  /\ rid \in DOMAIN teacher.rooms
  /\ teacher' = ApplyTask(teacher, rid, equation, ts)
  /\ UNCHANGED << now, sessions, participants, nextToken, ls, ctl, join,
                  loadReq, notif, liveRooms, streams, channels, broadcasts,
                  obs, handlers, conns >>

NextPresence ==
  \/ ViewTick
  \/ ViewRefreshNow
  \/ \E rid \in ViewRooms, state \in PresenceStates : ViewPresence(rid, state)

SpecPresence == InitView /\ [][NextPresence]_vars

\* The timestamps the senders put on task events (payload.ts); the events
\* of a room reach the view in any order.
MaxTaskTs == 3

TaskTimes == 1..MaxTaskTs

NextTask ==
  \/ ViewTick
  \/ ViewRefreshNow
  \/ \E rid \in ViewRooms, state \in PresenceStates : ViewPresence(rid, state)
  \/ \E rid \in ViewRooms, eq \in BusEquations, ts \in TaskTimes :
        ViewTask(rid, eq, ts)

SpecTask == InitView /\ [][NextTask]_vars

\* ------------------------------------------------------- createSession
MaxAttempts == 5

SessionLifetimeMs == 90 * 60 * 1000

MsgCreateFailed == "Kunne ikke oprette session. Proev igen."

\* What generateSessionCode can return: a code in use and a code not in use.
GeneratedCodes == { InitialCode, <<"C", "D">> }

\* addSessionCode(code, createdAt), lines 1432-1446
AddSessionCode(t, code) ==
  LET trimmed == toUpperCase(trim(code)) IN
  IF trimmed = <<>> THEN t
  ELSE [ t EXCEPT !.sessionError = "",
                  !.sessionCodes = @ \cup {trimmed} ]

\* The button "Opret session" (disabled while creatingSession): the head of
\* createSession, lines 1449-1450.
CreateSessionStart ==
  /\ ~teacher.creatingSession
  /\ teacher.create.pc = "idle"
  /\ teacher' = [ teacher EXCEPT
                    !.creatingSession = TRUE,
                    !.sessionError = "",
                    !.create = [ IdleCreate EXCEPT !.pc = "loop" ] ]
  /\ UNCHANGED << now, sessions, participants, nextToken, ls, ctl, join,
                  loadReq, notif, liveRooms, streams, channels, broadcasts,
                  obs, handlers, conns >>

\* One turn of the loop up to the await (lines 1454-1463): the insert is
\* sent with a new code and expiresAt = Date.now() + 90 minutes.
CreateInsert(code) ==
  /\ teacher.create.pc = "loop"
  /\ teacher' = [ teacher EXCEPT
                    !.create.pc = "await",
                    !.create.code = code,
                    !.create.attempt = @ + 1,
                    !.create.expiresAt = now + SessionLifetimeMs ]
  /\ UNCHANGED << now, sessions, participants, nextToken, ls, ctl, join,
                  loadReq, notif, liveRooms, streams, channels, broadcasts,
                  obs, handlers, conns >>

\* A loop that goes on after the fifth failed insert.
AfterInsertNoLimit(t, inserted) ==
  IF inserted
  THEN [ AddSessionCode(t, t.create.code) EXCEPT
           !.creatingSession = FALSE, !.create.pc = "idle" ]
  ELSE [ t EXCEPT !.create.pc = "loop" ]

\* createSession after the await (lines 1464-1477)
AfterInsert(t, inserted) ==
  IF inserted
  THEN [ AddSessionCode(t, t.create.code) EXCEPT
           !.creatingSession = FALSE, !.create.pc = "idle" ]
  ELSE IF t.create.attempt < MaxAttempts
       THEN [ t EXCEPT !.create.pc = "loop" ]
       ELSE [ t EXCEPT !.sessionError = MsgCreateFailed,
                       !.creatingSession = FALSE,
                       !.create.pc = "idle" ]

\* The insert is answered: with the row (the code was not in use), or with
\* an error.
CreateAnswer(inserted) ==
  /\ teacher.create.pc = "await"
  /\ inserted => SessionByCode(teacher.create.code) = {}
  /\ sessions' = IF inserted
                 THEN sessions \cup
                        { [ id |-> Cardinality(sessions) + 1,
                            code |-> teacher.create.code,
                            expiresAt |-> teacher.create.expiresAt ] }
                 ELSE sessions
  /\ teacher' = AfterInsert(teacher, inserted)
  /\ UNCHANGED << now, participants, nextToken, ls, ctl, join,
                  loadReq, notif, liveRooms, streams, channels, broadcasts,
                  obs, handlers, conns >>

\* The steps createSession takes by itself once it has been called.
CreateStep ==
  \/ \E code \in GeneratedCodes : CreateInsert(code)
  \/ \E inserted \in BOOLEAN : CreateAnswer(inserted)

NextCreate ==
  \/ ViewTick
  \/ ViewRefreshNow
  \/ CreateSessionStart
  \/ \E code \in GeneratedCodes : CreateInsert(code)
  \/ \E inserted \in BOOLEAN : CreateAnswer(inserted)

\* The loop runs on and every insert is answered, with a row or an error.
SpecCreate == InitView /\ [][NextCreate]_vars /\ WF_vars(CreateStep)

\* ================================================================ claims
\* The continuation of device c's alias lookup runs in this step.
AliasStep(c) ==
  join[c].pc = "alias" /\ join'[c].pc # "alias" /\ ctl'[c].mounted

\* The continuation of device c's upsert runs in this step.
UpsertStep(c) ==
  join[c].pc = "upsert" /\ join'[c].pc = "idle" /\ ctl'[c].mounted

\* The participant rows of the pair device c is joining.
JoinRows(c) == Rows(join[c].sessionId, join[c].trimmedAlias)

\* The rows of that pair after the step.
JoinRowsAfter(c) ==
  { p \in participants' :
      p.sessionId = join[c].sessionId /\ p.alias = join[c].trimmedAlias }

\* ------------------------------------------------------------------- C1
\* C1: on every device, roomId is sessionCode + ":" + alias while isJoined
\* is true and the empty string while it is false.
C1_RoomIdFollowsJoin ==
  \A c \in Clients :
    /\ ctl[c].isJoined =>
         roomId(c) = ctl[c].sessionCode \o <<":">> \o ctl[c].alias
    /\ ~ctl[c].isJoined => roomId(c) = <<>>

\* A device that typed " ab" and "x: " is joined in room AB:x.
C1_Witness ==
  \E c \in Clients :
    ctl[c].isJoined /\ roomId(c) = <<"A", "B", ":", "x">>

\* ------------------------------------------------------------------- C2
\* The row of the pair is fresh and carries the token device c has stored.
OwnFreshRow(c) ==
  /\ join[c].existingToken # NoToken
  /\ \E p \in JoinRows(c) :
       now - p.lastSeen < FreshnessMs /\ p.token = join[c].existingToken

\* C2: a device that joins again with the token it stored at its earlier
\* join is not refused although its row is fresh: the alias check lets the
\* join through with the same token and never reports alias-in-use, and the
\* join is accepted with that token whenever the store answers the upsert.
C2_SameDeviceRejoins ==
  [][ \A c \in Clients :
        /\ (AliasStep(c) /\ OwnFreshRow(c)) =>
             /\ join'[c].pc = "upsert"
             /\ join'[c].clientToken = join[c].existingToken
             /\ ctl'[c].joinError # ErrAliasTaken
        /\ (UpsertStep(c) /\ join[c].existingToken # NoToken) =>
             /\ join[c].clientToken = join[c].existingToken
             /\ \/ ctl'[c].joinError = ErrUnreachable
                \/ /\ ctl'[c].isJoined
                   /\ JoinRowsAfter(c) # {}
                   /\ \A p \in JoinRowsAfter(c) :
                        p.token = join[c].existingToken
                   /\ ExistingToken(ls'[c], PairKey(join[c].trimmedSession,
                                                    join[c].trimmedAlias))
                        = join[c].existingToken ]_vars

\* The alias check has let a device through whose own row is fresh.
C2_Witness ==
  \E c \in Clients :
    /\ join[c].pc = "upsert"
    /\ join[c].clientToken = join[c].existingToken
    /\ OwnFreshRow(c)

\* ------------------------------------------------------------------- C3
\* The row of the pair is fresh and carries another token than device c's.
ForeignFreshRow(c) ==
  \E p \in JoinRows(c) :
    now - p.lastSeen < FreshnessMs /\ p.token # join[c].existingToken

\* C3: when the row of the pair is fresh and the joining device has no
\* token or another one, the join ends with the alias-in-use error, writes
\* no row, stores no identity and leaves isJoined false.
C3_FreshForeignRowRefuses ==
  [][ \A c \in Clients :
        (AliasStep(c) /\ ForeignFreshRow(c)) =>
          /\ join'[c].pc = "idle"
          /\ ctl'[c].joinError = ErrAliasTaken
          /\ ~ctl'[c].isJoined
          /\ participants' = participants
          /\ ls'[c] = ls[c] ]_vars

\* ------------------------------------------------------------------- C4
\* The row of the pair is stale and carries another token than device c's.
ForeignStaleRow(c) ==
  /\ JoinRows(c) # {}
  /\ \A p \in JoinRows(c) :
       now - p.lastSeen >= FreshnessMs /\ p.token # join[c].existingToken

\* C4: when the row of the pair is stale, the join of another device is
\* let through by the alias check, and once the store answers the upsert
\* the device is joined and the row carries the joining device's token.
C4_StaleRowTakenOver ==
  [][ \A c \in Clients :
        /\ (AliasStep(c) /\ ForeignStaleRow(c)) =>
             join'[c].pc = "upsert" /\ ctl'[c].joinError # ErrAliasTaken
        /\ (UpsertStep(c) /\ ForeignStaleRow(c)) =>
             \/ ctl'[c].joinError = ErrUnreachable
             \/ /\ ctl'[c].isJoined
                /\ JoinRowsAfter(c) # {}
                /\ \A p \in JoinRowsAfter(c) :
                     p.token = join[c].clientToken /\ p.lastSeen = now ]_vars

\* A device is about to upsert over the stale row of another device.
C4_Witness ==
  \E c \in Clients : join[c].pc = "upsert" /\ ForeignStaleRow(c)

\* ------------------------------------------------------------------- C5
\* C5: a fresh participant row is never overwritten with another token.
C5_FreshRowKeepsToken ==
  [][ \A p \in participants :
        now - p.lastSeen < FreshnessMs =>
          \A q \in participants' :
            (q.sessionId = p.sessionId /\ q.alias = p.alias) =>
              q.token = p.token ]_vars

\* ------------------------------------------------------------------- C6
\* C6: every session lookup of a client (home page join, controller join,
\* re-validation) that treats the session as present runs at a time
\* strictly before expiresAt.
C6_AbsentFromExpiresAt ==
  [][ \A c \in Clients :
        /\ (~ctl[c].mounted /\ ls'[c].gCode # ls[c].gCode) =>
             \E s \in SessionByCode(ls'[c].gCode) : now < s.expiresAt
        /\ (join[c].pc = "lookup" /\ join'[c].pc = "alias") =>
             \E s \in SessionByCode(join[c].trimmedSession) :
               now < s.expiresAt
        /\ (loadReq[c].pc = "sent" /\ ctl'[c].mounted
              /\ ctl'[c].sessionExpiresAt # ctl[c].sessionExpiresAt
              /\ ctl'[c].sessionExpiresAt # NoTime) =>
             now < ctl'[c].sessionExpiresAt ]_vars

\* ------------------------------------------------------------------- C7
\* Nothing addressed to the teacher's view of the room is still in flight.
RelayQuiet(room) ==
  /\ streams[TeacherSub(room)] = <<>>
  /\ ~\E m \in broadcasts : m.room = room

\* C7: a task event a joined student emitted while the teacher view was
\* subscribed to the student's room is delivered to that view: once nothing
\* is in flight any more, the room shows the emitted equation.
C7_TaskReachesTeacher ==
  \A c \in Clients :
    ( /\ obs[c].task # <<>>
      /\ roomId(c) \in DOMAIN teacher.rooms
      /\ TeacherSubscribed(roomId(c))
      /\ RelayQuiet(roomId(c)) ) =>
      teacher.rooms[roomId(c)].equation = obs[c].task

\* ------------------------------------------------------------------- C8
\* Nothing of the identity the device was joined with is left in its
\* localStorage.
IdentityCleared(c, room) ==
  /\ ls[c].gCode = Null /\ ls[c].gAlias = Null
  /\ ls[c].lCode = Null /\ ls[c].lAlias = Null
  /\ Get(ls[c].gTok, room) = NoToken
  /\ Get(ls[c].lTok, room) = NoToken

\* C8: each eviction signal alone (a kick event on the push stream, a
\* delete notification for the device's alias, a heartbeat touch that
\* matched no row) makes a joined controller leave: isJoined is false,
\* roomId is empty and the stored identity is gone.
C8_EachSignalEvicts ==
  \A c \in Clients :
    obs[c].signal # "none" =>
      /\ obs[c].room # <<>>
      /\ ~ctl[c].isJoined
      /\ roomId(c) = <<>>
      /\ ctl[c].sessionCode = <<>> /\ ctl[c].alias = <<>>
      /\ IdentityCleared(c, obs[c].room)

\* One device has left on a kick event, the other on a delete notification.
C8_Witness ==
  \E c, d \in Clients :
    /\ obs[c].signal = "kick" /\ obs[d].signal = "delete"
    /\ obs[c].room = <<"A", "B", ":", "x">>

\* ------------------------------------------------------------------- C9
\* C9: once the teacher has deleted a joined student's row and the store
\* has answered a heartbeat of that student, the student is no longer
\* joined.
C9_HeartbeatEvicts ==
  \A c \in Clients :
    (obs[c].evicted /\ obs[c].hbAfterEvict) => ~ctl[c].isJoined

\* ------------------------------------------------------------------ C10
\* C10: a heartbeat whose touch failed changes nothing of the controller
\* or of its stored identity, and a heartbeat makes the controller leave
\* only when the store answered and no row matched.
C10_FailedTouchIgnored ==
  [][ \A c \in Clients :
        /\ (obs'[c].hbResult = "error" /\ obs[c].hbResult # "error") =>
             /\ ctl'[c] = ctl[c]
             /\ ls'[c] = ls[c]
             /\ obs'[c].signal = obs[c].signal
        /\ (obs'[c].signal = "heartbeat" /\ obs[c].signal # "heartbeat") =>
             /\ obs'[c].hbResult = "gone"
             /\ Rows(ctl[c].sessionId, ctl[c].alias) = {} ]_vars

\* One device is still joined after a failed touch, the other has left
\* on a touch that matched no row.
C10_Witness ==
  \E c, d \in Clients :
    /\ obs[c].hbResult = "error" /\ ctl[c].isJoined
    /\ obs[d].hbResult = "gone" /\ obs[d].signal = "heartbeat"

\* ------------------------------------------------------------------ C11
\* Every in-memory field of the identity is reset.
LeftFields(st) ==
  /\ st.sessionCode = <<>> /\ st.alias = <<>> /\ st.sessionId = 0
  /\ st.sessionExpiresAt = NoTime /\ ~st.isJoined

\* The step resets a field of device c's identity or removes one of its
\* code and alias entries from localStorage.
ResetsSomething(c) ==
  \/ ctl[c].sessionCode # <<>> /\ ctl'[c].sessionCode = <<>>
  \/ ctl[c].alias # <<>> /\ ctl'[c].alias = <<>>
  \/ ctl[c].sessionId # 0 /\ ctl'[c].sessionId = 0
  \/ ctl[c].sessionExpiresAt # NoTime /\ ctl'[c].sessionExpiresAt = NoTime
  \/ ctl[c].isJoined /\ ~ctl'[c].isJoined
  \/ ls[c].gCode # Null /\ ls'[c].gCode = Null
  \/ ls[c].gAlias # Null /\ ls'[c].gAlias = Null
  \/ ls[c].lCode # Null /\ ls'[c].lCode = Null
  \/ ls[c].lAlias # Null /\ ls'[c].lAlias = Null

\* C11: a step of a mounted page that resets any part of the identity
\* resets all of it: sessionCode, alias and sessionId are empty,
\* sessionExpiresAt is null, isJoined is false and roomId empty, the code
\* and alias entries are gone at both scopes and so are the token entries
\* of the identity that was left.
C11_LeaveResetsEverything ==
  [][ \A c \in Clients :
        (ctl[c].mounted /\ ctl'[c].mounted /\ ResetsSomething(c)) =>
          /\ LeftFields(ctl'[c])
          /\ RoomIdOf(ctl'[c]) = <<>>
          /\ ls'[c].gCode = Null /\ ls'[c].gAlias = Null
          /\ ls'[c].lCode = Null /\ ls'[c].lAlias = Null
          /\ (Truthy(ctl[c].sessionCode) /\ Truthy(ctl[c].alias)) =>
               /\ Get(ls'[c].gTok,
                      PairKey(ctl[c].sessionCode, ctl[c].alias)) = NoToken
               /\ Get(ls'[c].lTok,
                      PairKey(ctl[c].sessionCode, ctl[c].alias)) = NoToken ]_vars

\* A device that had joined, and so had stored its token, has left.
C11_Witness ==
  \E c \in Clients :
    /\ ctl[c].mounted /\ ctl[c].joinError = MsgRemoved
    /\ LeftFields(ctl[c])
    /\ ls[c] = InitStorage

\* ------------------------------------------------------------------ C12
\* C12: the leave of the expiry watcher is armed for the current
\* sessionExpiresAt and for nothing else (no timer of an earlier value is
\* left), and it is due exactly when the delay sessionExpiresAt - now is
\* not positive.
C12_OneTimerForCurrentExpiry ==
  \A c \in Clients :
    /\ ctl[c].timers = {ctl[c].sessionExpiresAt} \ {NoTime}
    /\ (ENABLED ExpiryTimer(c)) <=>
         /\ ctl[c].mounted
         /\ ctl[c].sessionExpiresAt # NoTime
         /\ ctl[c].sessionExpiresAt - now <= 0

\* A joined device has learnt the expiry of its session and holds the
\* timer for that later instant.
C12_Witness ==
  \E c \in Clients :
    /\ ctl[c].mounted /\ ctl[c].isJoined
    /\ ctl[c].timers = {ctl[c].sessionExpiresAt}
    /\ ctl[c].sessionExpiresAt - now > 0

\* ------------------------------------------------------------------ C13
\* C13: when the clock reaches the expiry instant of the session of a
\* joined controller, the leave of the expiry timer is due at that instant.
C13_LeaveDueAtExpiry ==
  [][ \A c \in Clients :
        \A s \in SessionByCode(ctl[c].sessionCode) :
          ( /\ ctl[c].mounted /\ ctl[c].isJoined /\ ctl'[c].isJoined
            /\ now < s.expiresAt /\ s.expiresAt <= now' ) =>
            s.expiresAt \in ctl'[c].timers ]_vars

\* ------------------------------------------------------------------ C14
\* C14: while a controller is joined and its session row is gone, a
\* re-validation lookup is in flight (a joined controller keeps
\* re-validating, so the loss of the row is seen by a later lookup).
C14_RevalidationContinues ==
  \A c \in Clients :
    ( /\ ctl[c].mounted /\ ctl[c].isJoined
      /\ SessionByCode(ctl[c].sessionCode) = {} ) =>
      loadReq[c].pc = "sent"

\* ------------------------------------------------------------------ C15
\* The continuation of device c's session lookup runs in this step.
LookupStep(c) ==
  join[c].pc = "lookup" /\ join'[c].pc # "lookup" /\ ctl'[c].mounted

\* The sessions carrying the code device c is joining.
JoinSessions(c) == SessionByCode(join[c].trimmedSession)

\* The join of device c has ended refused: nothing was written to the
\* participants, isJoined is false and joining is false again.
RefusedAfter(c) ==
  /\ participants' = participants
  /\ join'[c] = IdleJoin
  /\ ~ctl'[c].isJoined /\ ~ctl'[c].joining

\* C15: a join whose code has no session row ends with the does-not-exist
\* error and a join whose session is past its expiry ends with the expired
\* error, a different one, whenever the store answers the lookup; in both
\* cases, answered or not, no participant row is written, isJoined stays
\* false and joining returns to false.
C15_MissingAndExpiredRefused ==
  [][ \A c \in Clients :
        /\ ErrExpired # ErrNotFound
        /\ (LookupStep(c) /\ JoinSessions(c) = {}) =>
             /\ RefusedAfter(c)
             /\ JoinLookup(c, "ok") => ctl'[c].joinError = ErrNotFound
        /\ (LookupStep(c) /\ \E s \in JoinSessions(c) : s.expiresAt < now) =>
             /\ RefusedAfter(c)
             /\ JoinLookup(c, "ok") => ctl'[c].joinError = ErrExpired ]_vars

\* One device was told that the session has expired; after the sweep the
\* other was told that the session does not exist.
C15_Witness ==
  \E c, d \in Clients :
    /\ ctl[c].mounted /\ ctl[c].joinError = ErrExpired
    /\ ~ctl[c].isJoined /\ ~ctl[c].joining
    /\ ctl[d].mounted /\ ctl[d].joinError = ErrNotFound
    /\ ~ctl[d].isJoined /\ ~ctl[d].joining
    /\ sessions = {} /\ participants = {}

\* ------------------------------------------------------------------ C16
\* A store call of device c's join fails in this step.
FailedStoreCall(c) ==
  \/ JoinLookup(c, "error")
  \/ JoinAliasCheck(c, "error")
  \/ JoinUpsert(c, "error")

\* C16: a join whose store call fails ends there with the unreachable
\* error: the join is not accepted, no row is written and the stored
\* identity is left as it was.
C16_StoreFailureIsUnreachable ==
  [][ \A c \in Clients :
        (ctl'[c].mounted /\ FailedStoreCall(c)) =>
          /\ ctl'[c].joinError = ErrUnreachable
          /\ ctl'[c].joinError \notin {ErrNotFound, ErrExpired, ErrAliasTaken}
          /\ join'[c] = IdleJoin
          /\ ~ctl'[c].isJoined /\ ~ctl'[c].joining
          /\ participants' = participants
          /\ ls'[c] = ls[c] ]_vars

\* ------------------------------------------------------------------ C17
NoColon(s) == \A i \in 1..Len(s) : s[i] # ":"

\* s is what trimming and upper-casing leave unchanged.
IsNormalCode(s) == s # <<>> /\ trim(s) = s /\ toUpperCase(s) = s

\* s is what trimming and the removal of ":" leave unchanged.
IsNormalAlias(s) == s # <<>> /\ trim(s) = s /\ NoColon(s)

\* The continuation of the upsert of call k accepts the join in this step.
AcceptedAt(k) ==
  JoinUpsertAt(k, ApiClient, "ok") /\ SessionById(join[k].sessionId) # {}

\* C17: joinSession(rawCode, rawAlias) works on the trimmed, upper-cased
\* code and on the trimmed alias without ":": that pair is what the call
\* carries, what the session is looked up by, what the participant row,
\* the stored identity and the state of the accepted join hold, so no
\* row and no joined alias contains ":". When the code or the alias is
\* empty after normalisation the call ends with the validation error, no
\* lookup is sent and isJoined, joining and localStorage stay as they are.
C17_NormalisedPairUsed ==
  [][ /\ \A rawCode \in ApiRawCodes, rawAlias \in ApiRawAliases :
           ApiJoinSession(ApiClient, rawCode, rawAlias) =>
             IF trim(rawCode) = <<>> \/ StripColons(trim(rawAlias)) = <<>>
             THEN /\ ctl'[ApiClient].joinError = ErrEmpty
                  /\ join' = join /\ ls' = ls
                  /\ participants' = participants
                  /\ ctl'[ApiClient].isJoined = ctl[ApiClient].isJoined
                  /\ ctl'[ApiClient].joining = ctl[ApiClient].joining
             ELSE \E k \in JoinCalls :
                    /\ join[k].pc = "idle" /\ join'[k].pc = "lookup"
                    /\ join'[k].trimmedSession = toUpperCase(trim(rawCode))
                    /\ join'[k].trimmedAlias = StripColons(trim(rawAlias))
      /\ \A k \in JoinCalls :
           /\ join'[k].pc # "idle" =>
                /\ IsNormalCode(join'[k].trimmedSession)
                /\ IsNormalAlias(join'[k].trimmedAlias)
           /\ (join[k].pc = "lookup" /\ join'[k].pc = "alias") =>
                \E s \in sessions :
                  s.code = join[k].trimmedSession /\ s.id = join'[k].sessionId
           /\ AcceptedAt(k) =>
                /\ ctl'[ApiClient].isJoined
                /\ ctl'[ApiClient].sessionCode = join[k].trimmedSession
                /\ ctl'[ApiClient].alias = join[k].trimmedAlias
                /\ NoColon(ctl'[ApiClient].alias)
                /\ ls'[ApiClient].gCode = join[k].trimmedSession
                /\ ls'[ApiClient].lCode = join[k].trimmedSession
                /\ ls'[ApiClient].gAlias = join[k].trimmedAlias
                /\ ls'[ApiClient].lAlias = join[k].trimmedAlias
                /\ \E p \in participants' :
                     /\ p.sessionId = join[k].sessionId
                     /\ p.alias = join[k].trimmedAlias
      /\ \A p \in participants' : NoColon(p.alias) ]_vars

\* The page called joinSession(" ab", "x: ") and was accepted as AB:x, then
\* called it with the alias ":" and got the validation error.
C17_Witness ==
  /\ ctl[ApiClient].isJoined
  /\ roomId(ApiClient) = <<"A", "B", ":", "x">>
  /\ obs[ApiClient].autoKeys = {}
  /\ obs[ApiClient].calls = 2
  /\ ctl[ApiClient].joinError = ErrEmpty
  /\ \E p \in participants : p.alias = <<"x">>

\* ------------------------------------------------------------------ C18
\* A join of the pair (code, al) is in flight on the page.
InFlight(code, al) ==
  \E k \in JoinCalls :
    /\ join[k].pc # "idle"
    /\ join[k].trimmedSession = code /\ join[k].trimmedAlias = al

\* C18: a joinSession call whose normalised pair is the pair of a join in
\* flight is suppressed: it sends no lookup and changes no controller state.
C18_SamePairSuppressed ==
  [][ \A rawCode \in ApiRawCodes, rawAlias \in ApiRawAliases :
        ( /\ ApiJoinSession(ApiClient, rawCode, rawAlias)
          /\ InFlight(TrimmedSession(rawCode), TrimmedAlias(rawAlias)) ) =>
          /\ join' = join
          /\ ctl' = ctl ]_vars

\* ------------------------------------------------------------------ C19
\* The pair of call k.
CallPair(k) == PairKey(join[k].trimmedSession, join[k].trimmedAlias)

\* Call k ends in this step after a later call for another pair was made.
SupersededEnds(k) ==
  /\ join[k].pc # "idle" /\ join'[k].pc = "idle"
  /\ CallPair(k) # obs[ApiClient].lastCall

\* The controller is joined as the pair of the latest call.
JoinedAsLatest ==
  ctl[ApiClient].isJoined /\ roomId(ApiClient) = obs[ApiClient].lastCall

\* C19: when a call ends that a later call for another pair has
\* superseded, the controller is not joined as the pair of the ended call,
\* the stored identity is not that pair, and a membership obtained by the
\* later call is left as it was.
C19_LaterCallSupersedes ==
  [][ \A k \in JoinCalls :
        SupersededEnds(k) =>
          /\ ~( /\ ctl'[ApiClient].isJoined
                /\ RoomIdOf(ctl'[ApiClient]) = CallPair(k) )
          /\ ~( /\ ls'[ApiClient].gCode = join[k].trimmedSession
                /\ ls'[ApiClient].gAlias = join[k].trimmedAlias )
          /\ JoinedAsLatest =>
               /\ ctl'[ApiClient].isJoined
               /\ RoomIdOf(ctl'[ApiClient]) = roomId(ApiClient)
               /\ ls'[ApiClient] = ls[ApiClient] ]_vars

\* ------------------------------------------------------------------ C20
\* C20: within one page lifetime the auto-join effect never calls
\* joinSession for a pair it has called it for before.
C20_AutoJoinOncePerPair ==
  [][ AutoJoin(ApiClient) =>
        PairKey(ctl[ApiClient].sessionCode, ctl[ApiClient].alias)
          \notin obs[ApiClient].autoKeys ]_vars

\* ------------------------------------------------------------------- C21
\* The registered controllers of a room.
Registered(reg, room) == IF room \in DOMAIN reg THEN reg[room] ELSE {}

HasTask(sub) == \E i \in 1..Len(streams[sub]) : streams[sub][i].type = "task"

\* C21: a publish to a room appends the event exactly once to the stream of
\* every controller registered for that room whose write succeeds, and
\* leaves every other stream, those of other rooms included, as it was.
C21_PublishWritesRoomStreamsOnce ==
  [][ \A room \in BusRooms, eq \in BusEquations :
        BusPost(room, eq) =>
          \A sub \in DOMAIN streams :
            streams'[sub] =
              IF sub \in Registered(liveRooms, room)
                 /\ conns[sub].state = "open"
              THEN Append(streams[sub], Event("task", eq, now))
              ELSE streams[sub] ]_vars

\* A stream of one room holds a published event while an open stream of
\* another room holds only its opening frame.
C21_Witness ==
  \E sub \in DOMAIN conns, other \in DOMAIN conns :
    /\ sub[2] # other[2]
    /\ conns[sub].state = "open" /\ conns[other].state = "open"
    /\ HasTask(sub)
    /\ streams[other] = << OkFrame >>

\* ------------------------------------------------------------------- C24
\* C24: once a connection is cancelled its controller is in no subscriber
\* set, its keep-alive interval is cleared, and no frame is written to its
\* stream any more.
C24_CancelledStreamIsSilent ==
  [][ \A sub \in DOMAIN conns' :
        conns'[sub].state = "cancelled" =>
          /\ ~conns'[sub].ping
          /\ \A room \in DOMAIN liveRooms' : sub \notin liveRooms'[room]
          /\ (sub \in DOMAIN conns /\ conns[sub].state = "cancelled")
               => streams'[sub] = streams[sub] ]_vars

\* A connection was cancelled; another stream of its room stayed registered
\* and has received a published event that the cancelled one has not.
C24_Witness ==
  \E sub \in DOMAIN conns, other \in DOMAIN conns :
    /\ sub # other /\ sub[2] = other[2]
    /\ conns[sub].state = "cancelled"
    /\ other \in Registered(liveRooms, other[2])
    /\ HasTask(other) /\ ~HasTask(sub)

\* ------------------------------------------------------------------- C29
\* C29: the registry holds no room with an empty subscriber set, and every
\* registered controller is in the set of the room it subscribed to, and
\* in no other.
C29_RegistryWellFormed ==
  \A room \in DOMAIN liveRooms :
    /\ liveRooms[room] # {}
    /\ \A sub \in liveRooms[room] : sub[2] = room

\* One room has lost its last controller and has no entry, while another
\* room still has one.
C29_Witness ==
  \E sub \in DOMAIN conns :
    /\ conns[sub].state = "cancelled"
    /\ sub[2] \notin DOMAIN liveRooms
    /\ DOMAIN liveRooms # {}

\* ------------------------------------------------------------------- C30
\* C30: a publish during which the write to some stream fails removes that
\* stream's controller from the set of the room, still appends the event
\* to every other stream of the room, and removes the entry of the room
\* when no controller is left.
C30_FailedWritePrunesOnlyThatStream ==
  [][ \A room \in BusRooms, eq \in BusEquations :
        (BusPost(room, eq) /\ Failing(room) # {}) =>
          LET rest == liveRooms[room] \ Failing(room) IN
          /\ Registered(liveRooms', room) = rest
          /\ rest = {} => room \notin DOMAIN liveRooms'
          /\ \A sub \in rest :
               streams'[sub] = Append(streams[sub], Event("task", eq, now))
          /\ \A r \in DOMAIN liveRooms :
               r # room => Registered(liveRooms', r) = liveRooms[r] ]_vars

\* The controller of a broken stream has been pruned, and another stream
\* of the same room holds the published event.
C30_Witness ==
  \E sub \in DOMAIN conns, other \in DOMAIN conns :
    /\ sub # other /\ sub[2] = other[2]
    /\ conns[sub].state = "broken"
    /\ sub \notin Registered(liveRooms, sub[2])
    /\ other \in Registered(liveRooms, other[2])
    /\ HasTask(other)

\* ------------------------------------------------------------------- C22
\* C22: no handler is invoked for an event after it has unsubscribed, a
\* handler unsubscribed by another handler during the dispatch of the same
\* event included.
C22_UnsubscribedHandlerNotInvoked ==
  \A c \in Clients : obs[c].late = {}

\* ------------------------------------------------------------------- C23
\* C23: a room whose last handler has unsubscribed has no handlers entry
\* and no channel, and a later publish to that room creates neither.
C23_EmptiedRoomStaysAbsent ==
  \A c \in Clients :
    \A room \in obs[c].emptied :
      room \notin DOMAIN handlers[c] /\ room \notin channels[c]

\* ------------------------------------------------------------------- C25
\* What the teacher sees of the canvases, with the recorded timestamps.
Painted(t) == << t.canvas, t.preview, t.loading, t.lastCanvasTs >>

\* C25: a canvas event of a room is applied only if its timestamp is not
\* lower than the one recorded for the room; the recorded timestamp of a
\* room never decreases; an event with a lower timestamp leaves the
\* canvases and the recorded timestamps as they were.
C25_OlderCanvasEventDropped ==
  [][ /\ \A rid \in ViewRooms :
           LastCanvasTs(teacher', rid) >= LastCanvasTs(teacher, rid)
      /\ \A rid \in ViewRooms, type \in CanvasTypes, ts \in CanvasTimes :
           ViewCanvasEvent(rid, type, ts) =>
             /\ Painted(teacher') # Painted(teacher)
                  => ts >= LastCanvasTs(teacher, rid)
             /\ ts >= LastCanvasTs(teacher, rid)
                  => LastCanvasTs(teacher', rid) = ts
             /\ ts < LastCanvasTs(teacher, rid)
                  => Painted(teacher') = Painted(teacher) ]_vars

\* The room on the main canvas has received an event with a lower
\* timestamp after one with a higher timestamp, and the recorded timestamp
\* is still the higher one.
C25_Witness ==
  LET h == teacher.hist IN
  /\ Len(h.evs) = 2
  /\ h.evs[2].ts < h.evs[1].ts
  /\ LastCanvasTs(teacher, ActiveRoom) = h.evs[1].ts

\* ------------------------------------------------------------------- C26
\* The main canvas after the events a and b, a.ts <= b.ts, handled in
\* that order on the canvas cv with recorded timestamp last, every image
\* loaded.
InTimestampOrder(cv, last, a, b) ==
  LET afterA == IF a.ts >= last THEN DrawOn(cv, a.type, a.ts) ELSE cv
      lastA == IF a.ts >= last THEN a.ts ELSE last
  IN IF b.ts >= lastA THEN DrawOn(afterA, b.type, b.ts) ELSE afterA

\* C26: two canvas events of a room received in reverse timestamp order
\* leave the canvas that handling them in timestamp order would leave.
C26_ReverseOrderSameCanvas ==
  LET h == teacher.hist IN
  ( /\ Len(h.evs) = 2
    /\ h.evs[2].ts < h.evs[1].ts
    /\ h.k0
    /\ MainLoads(teacher) = {} )
  => teacher.canvas = InTimestampOrder(h.c0, h.t0, h.evs[2], h.evs[1])

\* ------------------------------------------------------------------- C27
\* The presence event recorded for the room is open and was received no
\* more than 20 seconds before the instant the view renders with.
OpenAndRecent(t, rid) ==
  /\ t.rooms[rid].presenceState = "open"
  /\ t.rooms[rid].lastPresenceAt # NoTime
  /\ t.clock - t.rooms[rid].lastPresenceAt <= PRESENCE_TIMEOUT_MS

\* C27: a presence event is recorded with its state and the time of its
\* reception; a room is labelled OPEN only if the last presence event
\* received for it is open and no older than 20 seconds, and a room
\* without a presence event in the last 20 seconds is labelled CLOSED.
C27_OpenOnlyWhileRecentlyOpen ==
  [][ /\ \A rid \in ViewRooms, state \in PresenceStates :
           ViewPresence(rid, state) =>
             /\ teacher'.rooms[rid].presenceState = state
             /\ teacher'.rooms[rid].lastPresenceAt = now
      /\ \A rid \in ViewRooms :
           /\ PresenceLabel(teacher', rid) = "OPEN"
                => OpenAndRecent(teacher', rid)
           /\ ( \/ teacher'.rooms[rid].lastPresenceAt = NoTime
                \/ teacher'.clock - teacher'.rooms[rid].lastPresenceAt
                     > PRESENCE_TIMEOUT_MS )
                => PresenceLabel(teacher', rid) = "CLOSED" ]_vars

\* The last presence event of a room said open, no closed or hidden event
\* followed, more than 20 seconds have passed and the room is labelled
\* CLOSED, while the other room is labelled OPEN.
C27_Witness ==
  \E rid \in ViewRooms, other \in ViewRooms :
    /\ teacher.rooms[rid].presenceState = "open"
    /\ teacher.clock - teacher.rooms[rid].lastPresenceAt
         > PRESENCE_TIMEOUT_MS
    /\ PresenceLabel(teacher, rid) = "CLOSED"
    /\ PresenceLabel(teacher, other) = "OPEN"

\* ------------------------------------------------------------------- C28
\* What every step of createSession does.
CreateSessionRule ==
  /\ teacher'.create.attempt <= MaxAttempts
  /\ \A code \in GeneratedCodes :
       CreateInsert(code) =>
         /\ teacher'.create.code = code
         /\ teacher'.create.expiresAt = now + SessionLifetimeMs
         /\ teacher'.creatingSession
  /\ CreateAnswer(TRUE) =>
       /\ sessions' \ sessions =
            { [ id |-> Cardinality(sessions) + 1,
                code |-> teacher.create.code,
                expiresAt |-> teacher.create.expiresAt ] }
       /\ teacher'.sessionCodes =
            teacher.sessionCodes \cup { teacher.create.code }
       /\ teacher'.sessionError = ""
       /\ teacher'.create.pc = "idle"
       /\ ~teacher'.creatingSession
  /\ CreateAnswer(FALSE) =>
       /\ sessions' = sessions
       /\ teacher'.sessionCodes = teacher.sessionCodes
       /\ IF teacher.create.attempt < MaxAttempts
          THEN /\ teacher'.create.pc = "loop"
               /\ teacher'.creatingSession
               /\ teacher'.sessionError = ""
          ELSE /\ teacher'.create.pc = "idle"
               /\ ~teacher'.creatingSession
               /\ teacher'.sessionError = MsgCreateFailed

\* C28: createSession sends at most five inserts, each with a generated
\* code and expiresAt = the time of the attempt + 90 minutes; it stops at
\* the first insert that succeeds, adding exactly that code to the tracked
\* sessions; when all five fail it adds no code and reports an error; in
\* both cases it ends, with creatingSession reset to false.
C28_CreateSessionEnds ==
  /\ [][CreateSessionRule]_vars
  /\ teacher.creatingSession ~> ~teacher.creatingSession

\* createSession has ended after five failed inserts: the error is shown
\* and no code was added.
C28_Witness ==
  /\ teacher.create.pc = "idle"
  /\ teacher.create.attempt = MaxAttempts
  /\ ~teacher.creatingSession
  /\ teacher.sessionError = MsgCreateFailed
  /\ teacher.sessionCodes = { InitialCode }

\* ------------------------------------------------------------------- C31
\* C31: in the managed-channel transport a room has a cached channel only
\* while at least one handler is subscribed to it (the cache, keyed by room
\* id, holds at most one channel per room).
C31_ChannelOnlyWhileSubscribed ==
  \A c \in Clients :
    \A room \in channels[c] : Handlers(c, room) # {}

\* ------------------------------------------------------------------- C40
\* C40: the keep-alive interval of an event stream runs only while the
\* controller of the stream is in the subscriber set of its room; a
\* controller pruned by publishEvent after a failed write has no running
\* interval.
C40_PingOnlyWhileRegistered ==
  \A sub \in DOMAIN conns :
    conns[sub].ping => sub \in Registered(liveRooms, sub[2])

\* ------------------------------------------------------------------- C36
\* C36: a controller that is not joined (it has left and no later join has
\* been accepted) has an empty sessionId, a null sessionExpiresAt and no
\* expiry timer; a re-validation response that arrives after the leave
\* writes none of them.
C36_LeftControllerHasNoSession ==
  \A c \in Clients :
    ~ctl[c].isJoined =>
      /\ ctl[c].sessionId = 0
      /\ ctl[c].sessionExpiresAt = NoTime
      /\ ctl[c].timers = {}

\* ------------------------------------------------------------------- C37
\* The session the pending re-validation lookup of c asks for exists and
\* has not expired.
LookupSessionValid(c) ==
  \E s \in SessionByCode(loadReq[c].cCode) : ~IsExpired(s.expiresAt, now)

FailedLookupKeepsMembership ==
  \A c \in Clients :
    LoadSessionResponse(c, "error") /\ ctl[c].isJoined
      /\ LookupSessionValid(c)
    => /\ ctl'[c].isJoined
       /\ ctl'[c].sessionCode = ctl[c].sessionCode
       /\ ctl'[c].alias = ctl[c].alias
       /\ ls'[c] = ls[c]

\* C37: a re-validation lookup that fails (store or network error) while
\* the controller is joined does not force-leave it and does not clear the
\* identity in local storage.
C37_FailedLookupKeepsMembership == [][FailedLookupKeepsMembership]_vars

\* ------------------------------------------------------------------- C35
\* The client token device c holds for its current membership.
MembershipToken(c) == ExistingToken(ls[c], roomId(c))

\* The pending heartbeat response of c reports 'row gone' and was requested
\* under an earlier membership than the one c has now.
StaleGoneResponse(c) ==
  /\ ctl[c].beat.pc = "sent"
  /\ ctl[c].beat.result = "gone"
  /\ ctl[c].isJoined
  /\ MembershipToken(c) # ctl[c].beat.tok

StaleGoneIgnored ==
  \A c \in Clients :
    HeartbeatAnswer(c) /\ StaleGoneResponse(c)
    => /\ ctl'[c].isJoined
       /\ RoomIdOf(ctl'[c]) = roomId(c)
       /\ ls'[c] = ls[c]

\* C35: a heartbeat response reporting 'row gone' that was requested under
\* an earlier membership leaves isJoined, the room id and the stored local
\* identity of the current membership unchanged.
C35_StaleGoneIgnored == [][StaleGoneIgnored]_vars

\* ------------------------------------------------------------------- C38
\* The alias lookup of c's running join finds a row. In SpecMember every
\* row was written by an earlier accepted join of this device, which has
\* left since (the join form is shown only while not joined), and the
\* session is still valid.
RejoinsOwnAlias(c) ==
  /\ join[c].pc = "alias"
  /\ Rows(join[c].sessionId, join[c].trimmedAlias) # {}

RejoinNotRefused ==
  \A c \in Clients :
    JoinAliasCheck(c, "ok") /\ RejoinsOwnAlias(c)
    => ctl'[c].joinError # ErrAliasTaken

\* C38: a device that has left while its participant row still exists can
\* join the same valid session under the same alias again at once; the
\* join does not end with the alias-in-use error.
C38_RejoinNotRefused == [][RejoinNotRefused]_vars

\* ------------------------------------------------------------------- C39
\* C39: the alias normalisation of joinSession is idempotent: the alias a
\* running join carries, and the alias an accepted join has persisted, are
\* returned unchanged when normalised again, so a re-join from local
\* storage uses the same alias.
C39_NormalisedAliasIsFixpoint ==
  \A c \in Clients :
    /\ join[c].pc # "idle" =>
         TrimmedAlias(join[c].trimmedAlias) = join[c].trimmedAlias
    /\ Truthy(ls[c].lAlias) => TrimmedAlias(ls[c].lAlias) = ls[c].lAlias

\* ------------------------------------------------------------------- C32
OlderTaskKeepsDisplay ==
  \A rid \in ViewRooms, eq \in BusEquations, ts \in TaskTimes :
    ViewTask(rid, eq, ts) /\ ts < teacher.rooms[rid].taskTs
    => teacher'.rooms[rid].equation = teacher.rooms[rid].equation

\* C32: within one room, a task event whose ts is lower than the ts of a
\* task event the teacher view has already applied does not overwrite the
\* displayed equation when it arrives later.
C32_OlderTaskKeepsDisplay == [][OlderTaskKeepsDisplay]_vars

\* ------------------------------------------------------------------- C33
\* C33: a presence event with state open is posted only while the page is
\* visible: none is posted between a change to hidden and the next change
\* back to visible.
C33_OpenOnlyWhileVisible ==
  \A c \in Clients :
    \A i \in 1..Len(obs[c].sent) :
      obs[c].sent[i].state = "open" => ctl[c].presence.visible

\* ------------------------------------------------------------------- C34
\* C34: once the room id is cleared or replaced, no presence event is
\* posted for the former room id: every event a step posts carries the
\* room id the controller has after the step.
C34_NoPresenceForFormerRoom ==
  \A c \in Clients :
    \A i \in 1..Len(obs[c].sent) : obs[c].sent[i].room = roomId(c)

====
